---- MODULE Spec2Model ----
(***************************************************************************)
(* Model of the checkbox engine of src/src/extension.ts: the annotation    *)
(* matcher, the value extractor, the validator, the toggle / set-value     *)
(* line rewrite (specification Spec), the scan of one document             *)
(* (specification SpecScan) and the scan of the workspace with its         *)
(* file-set cache (specification SpecFiles).                               *)
(*                                                                         *)
(* A line of text is a sequence of one-character strings.  The literal     *)
(* marker "[CB]:" is the single token Marker: the five characters of the   *)
(* marker cannot overlap one another, and the regular expressions only     *)
(* ever match it as a whole literal, so one token behaves as the five      *)
(* characters do.  Lines hold no line break (document.lineAt(i).text).     *)
(***************************************************************************)
EXTENDS Integers, Sequences, FiniteSets, TLC

VARIABLES
  lineText,     \* the text of the line in the editor
  oldText,      \* the text the last operation was given
  op,           \* the last operation: "init", "toggle", "setValue", "validate"
  newValueArg,  \* the newValue argument of the last setCheckboxValue
  edited,       \* the last operation replaced the line (editBuilder.replace)
  result,       \* what the last toggle resolved to: "true", "false"; else "none"
  validation,   \* what the last validateCheckboxValue returned
  \* -- the scan of one document
  document,     \* the open document: its languageId and its lines
  checkboxes,   \* what the last getCheckboxesInFile returned
  scanOutcome,  \* how findCheckboxesInDocument ended: "none", "return", "throw"
  \* -- the scan of the workspace
  disk,         \* the candidate files: path -> readable, content
  batchSize,    \* the BATCH_SIZE the scans run with
  clock,        \* Date.now()
  filesWithCheckboxesCache,  \* null, or the items and timestamp of a scan
  call,         \* the getCheckboxFiles calls: the locals of each, or idle
  reading,      \* for each call, the files of its batch still being read
  refreshed,    \* refresh() ran and no getCheckboxFiles was called since
  returned,     \* what the last getCheckboxFiles call returned
  lastCall,     \* what the last finished call did, for the claims
  \* -- the sort of the file list
  sortMode,     \* 'Alphabetical', 'Last Modified', 'None'
  stats,        \* what fs.promises.stat gives for each file: mtimeMs, or failure
  sortCache,    \* the cached items array: its identity and its elements
  sortResult,   \* the array the last getCheckboxFiles handed to its caller
  \* -- the per-file cache and the debounced refresh
  docs,         \* the text documents: path -> languageId and lines
  fileCache,    \* path -> no entry, or checkboxes and timestamp
  pendingRefreshFiles,   \* the paths notified since the last timer firing
  refreshDebounceTimer,  \* null (0), or the handle of the last timer set
  timers,       \* the timers that are armed: handle and due time of each
  fileCall,     \* the getCheckboxesInFile call in flight, or the idle call
  lastFileCall, \* what the last finished getCheckboxesInFile did
  debounced,    \* what the notifications and the timer firings did so far
  \* -- the search filter of the tree
  searchFilter  \* query, caseSensitive, useRegex

lineVars == <<lineText, oldText, op, newValueArg, edited, result, validation>>
scanVars == <<document, checkboxes, scanOutcome>>
filesVars == <<disk, batchSize, clock, filesWithCheckboxesCache, call, reading,
               refreshed, returned, lastCall>>

sortVars == <<sortMode, stats, sortCache, sortResult>>

cacheVars == <<docs, fileCache, pendingRefreshFiles, refreshDebounceTimer,
               timers, fileCall, lastFileCall, debounced>>

filterVars == <<searchFilter>>

vars == <<lineVars, scanVars, filesVars, sortVars, cacheVars, filterVars>>

\* what the actions on one part of the state leave alone
notLineVars == <<scanVars, filesVars, sortVars, cacheVars, filterVars>>
notScanVars == <<lineVars, filesVars, sortVars, cacheVars, filterVars>>
notFilesVars == <<lineVars, scanVars, sortVars, cacheVars, filterVars>>
notSortVars == <<lineVars, scanVars, filesVars, cacheVars, filterVars>>
\* the per-file cache shares the clock and the file-set cache with the scan
\* of the workspace
notCacheVars == <<lineVars, scanVars, sortVars, disk, batchSize, call, reading,
                  returned, lastCall, filterVars>>

\* ------------------------------------------------------------- bounds

\* Longest free prefix of an initial line.
MaxHead == 3

\* --------------------------------------------------------- characters

Marker == "M"
Pipe == "|"
Equals == "="
Space == " "
\* what At returns beyond the end of the line
EOL == "EOL"

IsWs(c) == c = Space

At(s, i) == IF i \in 1..Len(s) THEN s[i] ELSE EOL

\* number of whitespace characters from position i on: what a greedy \s* takes
RECURSIVE WsRun(_, _)
WsRun(s, i) == IF i \in 1..Len(s) /\ IsWs(s[i]) THEN 1 + WsRun(s, i + 1) ELSE 0

\* the characters of s at the positions i..j that exist
Sub(s, i, j) ==
  LET lo == IF i < 1 THEN 1 ELSE i
      hi == IF j > Len(s) THEN Len(s) ELSE j
  IN  IF lo <= hi THEN SubSeq(s, lo, hi) ELSE <<>>

\* String.prototype.trim
RECURSIVE TrimLeft(_)
TrimLeft(t) == IF t # <<>> /\ IsWs(Head(t)) THEN TrimLeft(Tail(t)) ELSE t

RECURSIVE TrimRight(_)
TrimRight(t) ==
  IF t # <<>> /\ IsWs(t[Len(t)]) THEN TrimRight(Sub(t, 1, Len(t) - 1)) ELSE t

trim(t) == TrimRight(TrimLeft(t))

\* String.prototype.split('|'): the segments between the pipes, in order
RECURSIVE SplitFrom(_, _, _)
SplitFrom(t, from, i) ==
  IF i > Len(t) THEN <<Sub(t, from, Len(t))>>
  ELSE IF t[i] = Pipe THEN <<Sub(t, from, i - 1)>> \o SplitFrom(t, i + 1, i + 1)
  ELSE SplitFrom(t, from, i + 1)

split(t) == SplitFrom(t, 1, 1)

\* A split that drops the segments that are empty once trimmed.
SplitTrimNonEmpty(valuesString) ==
  LET parts == split(valuesString)
  IN  SelectSeq([i \in 1..Len(parts) |-> trim(parts[i])], LAMBDA v : v # <<>>)

\* valuesString.split('|').map(v => v.trim())
SplitTrim(valuesString) ==
  LET parts == split(valuesString) IN [i \in 1..Len(parts) |-> trim(parts[i])]

\* ------------------------------------------------------ comment token

\* The names every object literal inherits from Object.prototype: commentMap
\* has a truthy value, which is no string, under each of them.
ObjectPrototypeKeys ==
  {"constructor", "toString", "toLocaleString", "valueOf", "hasOwnProperty",
   "isPrototypeOf", "propertyIsEnumerable", "__proto__"}

\* what commentMap[languageId] is for an inherited name: a function or an
\* object, not a comment token
InheritedMember == <<"Object.prototype member">>

\* commentMap[languageId] || '#'
getCommentSyntax(languageId) ==
  IF languageId \in {"python", "ruby", "perl", "r", "yaml", "bash", "shell",
                     "powershell"}
  THEN <<"#">>
  ELSE IF languageId \in {"javascript", "typescript", "java", "c", "cpp",
                          "csharp", "go", "rust", "swift", "kotlin", "php",
                          "dart"}
  THEN <<"/", "/">>
  ELSE IF languageId \in ObjectPrototypeKeys
  THEN InheritedMember
  ELSE <<"#">>

\* The language of the edited document.
DocLanguageId == "python"

\* ------------------------------------------- pieces of the expressions

\* the comment token, escaped, matched as a literal at position i
HasAt(s, i, cs) ==
  /\ i >= 1
  /\ i + Len(cs) - 1 <= Len(s)
  /\ \A k \in 1..Len(cs) : s[i + k - 1] = cs[k]

\* `${escaped}\s*\[CB\]:` at h: the position after the marker, 0 when
\* it does not match there
MarkEnd(s, h, cs) ==
  IF ~HasAt(s, h, cs) THEN 0
  ELSE LET k == h + Len(cs) + WsRun(s, h + Len(cs))
       IN  IF At(s, k) = Marker THEN k + 1 ELSE 0

MarkAt(s, h, cs) == MarkEnd(s, h, cs) # 0

\* `\s*([^|]+ ...` from m, the position after the marker: where the value
\* list group starts, 0 when it cannot.  The greedy \s* takes the whole
\* whitespace run; when a pipe or the end of the line follows, it gives
\* one whitespace character back to [^|]+, which needs one character.
ListStart(s, m) ==
  LET w == WsRun(s, m)
  IN  IF At(s, m + w) \notin {Pipe, EOL} THEN m + w
      ELSE IF w >= 1 THEN m + w - 1
      ELSE 0

\* [^|]+ from p on (s[p] is not a pipe): the last position it takes
RECURSIVE SegEnd(_, _)
SegEnd(s, p) == IF At(s, p + 1) \notin {Pipe, EOL} THEN SegEnd(s, p + 1) ELSE p

\* (?:\|[^|\n]+)* after a segment that ends at e: the last position taken
RECURSIVE MoreSegs(_, _)
MoreSegs(s, e) ==
  IF At(s, e + 1) = Pipe /\ At(s, e + 2) \notin {Pipe, EOL}
  THEN MoreSegs(s, SegEnd(s, e + 2))
  ELSE e

\* ([^|]+(?:\|[^|\n]+)*) that starts at g: its last position
ListEnd(s, g) == MoreSegs(s, SegEnd(s, g))

\* `${escaped}\s*\[CB\]:\s*([^|]+(?:\|[^|\n]+)*)` matches at h
AnnotAt(s, h, cs) ==
  LET m == MarkEnd(s, h, cs) IN m # 0 /\ ListStart(s, m) # 0

\* the positions where the annotation expression matches
AnnotStarts(s, cs) == {h \in 1..Len(s) : AnnotAt(s, h, cs)}

\* the positions where `${escaped}\s*\[CB\]:` matches
MarkStarts(s, cs) == {h \in 1..Len(s) : MarkAt(s, h, cs)}

\* `(.+?)\s*` from a, then something that matches at the positions hs: the
\* lengths the lazy group can have
LazyLens(s, a, hs) ==
  {L \in 1..(Len(s) - a + 1) : (a + L + WsRun(s, a + L)) \in hs}

Min(S) == CHOOSE x \in S : \A y \in S : x <= y
Max(S) == CHOOSE x \in S : \A y \in S : x >= y

NoMatch ==
  [matched |-> FALSE, undef |-> FALSE, q |-> 0, a |-> 0, len |-> 0, h |-> 0,
   g |-> 0, e |-> 0]


\* ------------------------------------------------ the three expressions

\* getCheckboxRegex(commentSyntax).exec(lineText) with lastIndex 0, and
\* lineText.match(cbRegex): the leftmost position where the expression
\* matches; g..e is capture group 1
cbMatch(s, cs) ==
  LET hs == AnnotStarts(s, cs)
  IN  IF hs = {} THEN NoMatch
      ELSE LET h == Min(hs)
               g == ListStart(s, MarkEnd(s, h, cs))
           IN  [NoMatch EXCEPT !.matched = TRUE, !.h = h, !.g = g,
                               !.e = ListEnd(s, g)]

\* `=\s*(.+?)\s*(${escapedComment}\s*\[CB\]:\s*)([^|]+(?:\|[^|\n]+)*)` with
\* the `=` at q: the whitespace counts the first (greedy) \s* can take
VarWs(s, q, hs) ==
  {w \in 0..WsRun(s, q + 1) : LazyLens(s, q + 1 + w, hs) # {}}

\* lineText.match(varRegex): (.*) is greedy, so the `=` is the last one
\* after which the rest matches; the first \s* is greedy, (.+?) is lazy.
\* q: the `=`; a, len: group 2; h..g-1: group 3; g..e: group 4
varMatch(s, cs) ==
  LET hs == AnnotStarts(s, cs)
      qs == {q \in 1..Len(s) : s[q] = Equals /\ VarWs(s, q, hs) # {}}
  IN  IF qs = {} THEN NoMatch
      ELSE LET q == Max(qs)
               a == q + 1 + Max(VarWs(s, q, hs))
               len == Min(LazyLens(s, a, hs))
               h == a + len + WsRun(s, a + len)
               g == ListStart(s, MarkEnd(s, h, cs))
           IN  [matched |-> TRUE, undef |-> FALSE, q |-> q, a |-> a,
                len |-> len, h |-> h, g |-> g, e |-> ListEnd(s, g)]

\* `=\s*(.+?)?\s*${escaped}\s*\[CB\]:` with the `=` at q and the first \s*
\* taking w characters: the optional group takes part (lazily), or it is
\* skipped and the marker follows the whitespace at once
ExtWithGroup(s, q, w, hs) == LazyLens(s, q + 1 + w, hs) # {}

ExtNoGroup(s, q, w, hs) == (q + 1 + w + WsRun(s, q + 1 + w)) \in hs

ExtWs(s, q, hs) ==
  {w \in 0..WsRun(s, q + 1) :
     ExtWithGroup(s, q, w, hs) \/ ExtNoGroup(s, q, w, hs)}

\* lineText.match(regex) of extractVariableValue: the leftmost `=` from
\* which the expression matches; undef: capture group 1 took no part
extMatch(s, cs) ==
  LET hs == MarkStarts(s, cs)
      qs == {q \in 1..Len(s) : s[q] = Equals /\ ExtWs(s, q, hs) # {}}
  IN  IF qs = {} THEN NoMatch
      ELSE LET q == Min(qs)
               w == Max(ExtWs(s, q, hs))
               a == q + 1 + w
           IN  IF ExtWithGroup(s, q, w, hs)
               THEN [NoMatch EXCEPT !.matched = TRUE, !.q = q, !.a = a,
                                    !.len = Min(LazyLens(s, a, hs))]
               ELSE [NoMatch EXCEPT !.matched = TRUE, !.undef = TRUE, !.q = q]

\* ------------------------------------------------------- the functions

extractCheckboxValues(s, cb) == SplitTrim(Sub(s, cb.g, cb.e))

\* The outcome of a call: a string, null, or a TypeError (trim of undefined)
Null == [kind |-> "null", value |-> <<>>]
Threw == [kind |-> "throw", value |-> <<>>]
Str(v) == [kind |-> "string", value |-> v]

extractVariableValue(s, cs) ==
  LET varMatch1 == extMatch(s, cs)
  IN  IF varMatch1.matched
      THEN IF varMatch1.undef THEN Threw
           ELSE Str(trim(Sub(s, varMatch1.a, varMatch1.a + varMatch1.len - 1)))
      ELSE Null

\* values.indexOf(currentValue): the first index, 0 for JavaScript's -1
indexOf(values, v) ==
  LET is == {i \in 1..Len(values) : values[i] = v}
  IN  IF is = {} THEN 0 ELSE Min(is)

\* A membership test that looks at the first value only.
includesFirstOnly(values, v) == values # <<>> /\ values[1] = v

\* values.includes(varValue)
includes(values, v) == indexOf(values, v) # 0

\* values.join(sep)
RECURSIVE joinWith(_, _)
joinWith(values, sep) ==
  IF values = <<>> THEN <<>>
  ELSE IF Len(values) = 1 THEN values[1]
  ELSE values[1] \o sep \o joinWith(Tail(values), sep)

\* A join on the comma alone: values.join(',').
joinCommaOnly(values) == joinWith(values, <<",">>)

\* values.join(', ')
join(values) == joinWith(values, <<",", " ">>)

MsgHead == "Variable value \""
MsgMid == "\" does not match any carousel value ("
MsgEnd == ")"

errorMessageOf(varValue, values) ==
  <<MsgHead>> \o varValue \o <<MsgMid>> \o join(values) \o <<MsgEnd>>

Valid == [kind |-> "return", isValid |-> TRUE, hasMessage |-> FALSE,
          errorMessage |-> <<>>]
Invalid(msg) == [kind |-> "return", isValid |-> FALSE, hasMessage |-> TRUE,
                 errorMessage |-> msg]
ValidateThrew == [kind |-> "throw", isValid |-> FALSE, hasMessage |-> FALSE,
                  errorMessage |-> <<>>]
NotValidated == [kind |-> "none", isValid |-> FALSE, hasMessage |-> FALSE,
                 errorMessage |-> <<>>]

validateCheckboxValue(s, cs) ==
  LET varValue == extractVariableValue(s, cs)
      cb == cbMatch(s, cs)
  IN  IF varValue.kind = "throw" THEN ValidateThrew
      ELSE IF varValue.kind = "null" \/ varValue.value = <<>> THEN Valid
      ELSE IF ~cb.matched THEN Valid
      ELSE LET values == extractCheckboxValues(s, cb)
           IN  IF includes(values, varValue.value) THEN Valid
               ELSE Invalid(errorMessageOf(varValue.value, values))

\* ------------------------------------------------- toggle and set value

\* A cycle step that only knows the binary case: the first value goes to
\* the second, everything else to the first.
nextValueBinaryOnly(values, c) ==
  IF Len(values) >= 2 /\ c = values[1] THEN values[2] ELSE values[1]

\* A cycle step that wraps one position early.
nextValueWrapsEarly(values, c) ==
  LET currentIndex == indexOf(values, c)
  IN  IF currentIndex # 0 /\ currentIndex < Len(values) - 1
      THEN values[currentIndex + 1]
      ELSE values[1]

\* the cycle step of toggleCheckboxAtLine
nextValue(values, c) ==
  LET currentIndex == indexOf(values, c)
  IN  IF currentIndex # 0 /\ currentIndex < Len(values)
      THEN values[currentIndex + 1]
      ELSE values[1]

\* the capture groups of varMatch
beforeEquals(s, v) == Sub(s, 1, v.q - 1)
currentValue(s, v) == trim(Sub(s, v.a, v.a + v.len - 1))
cbPrefix(s, v) == Sub(s, v.h, v.g - 1)
valuesString(s, v) == Sub(s, v.g, v.e)

\* A rewrite that tidies the left-hand side too: the text before the `=`
\* trimmed, then one space.
newTextOfTrimmedBefore(s, v, newValue) ==
  trim(beforeEquals(s, v)) \o <<Space, Equals, Space>> \o newValue \o <<Space>>
    \o cbPrefix(s, v) \o valuesString(s, v)

\* `${beforeEquals}= ${newValue} ${cbPrefix}${valuesString}`
newTextOf(s, v, newValue) ==
  beforeEquals(s, v) \o <<Equals, Space>> \o newValue \o <<Space>>
    \o cbPrefix(s, v) \o valuesString(s, v)

\* A guard that forgets the assignment: if (cbMatch).
toggleMatchesCbOnly(cb, v) == cb.matched

\* if (cbMatch && varMatch)
toggleMatches(cb, v) == cb.matched /\ v.matched

\* valuesString.split('|').map(v => v.trim()) of the toggle
toggleValues(s, v) == SplitTrim(valuesString(s, v))

\* newText of toggleCheckboxAtLine, v being its varMatch
toggleNewText(s, v) ==
  newTextOf(s, v, nextValue(toggleValues(s, v), currentValue(s, v)))

\* if (varMatch) of setCheckboxValue
setValueMatches(v) == v.matched

\* ------------------------------------------------------ the state machine

\* Spec works on one line: no document is open and no workspace is scanned.
NoDocument == [languageId |-> "", lines |-> <<>>]

ScanUnused ==
  /\ document = NoDocument
  /\ checkboxes = <<>>
  /\ scanOutcome = "none"

\* const BATCH_SIZE = 20
BATCH_SIZE == 20

\* filesWithCheckboxesCache = null
NoFilesCache == [present |-> FALSE, items |-> <<>>, timestamp |-> 0]

\* no getCheckboxFiles call is in flight.  pc: "idle", "findFiles" (awaiting
\* the enumeration), "batch" (awaiting the reads of a batch); now, files, i,
\* fileMap: the locals of the call
\* cacheBefore, reads, afterRefresh: what becomes of lastCall when the call
\* ends
NoCall == [pc |-> "idle", now |-> 0, files |-> <<>>, i |-> 0, fileMap |-> <<>>,
           cacheBefore |-> NoFilesCache, reads |-> <<>>, afterRefresh |-> FALSE]

\* The getCheckboxFiles calls that can be in flight together: getChildren
\* starts one whenever the tree asks for its roots.
CallIds == {1, 2}

\* what a finished call did.  kind: "cached", "scanned"; the cache it found
\* and the cache it left;
\* enumerations: the findFiles calls it made; reads: the files it read, in
\* the order the reads settled
\* afterRefresh: the call was the first one after a refresh()
NoLastCall == [kind |-> "none", now |-> 0, cacheBefore |-> NoFilesCache,
               cacheAfter |-> NoFilesCache, enumerations |-> 0, reads |-> <<>>,
               afterRefresh |-> FALSE]

\* an array: what tells it from every other array (ref), and its elements
NoArray == [ref |-> 0, elems |-> <<>>]

SortUnused ==
  /\ sortMode = "Alphabetical"
  /\ stats = <<>>
  /\ sortCache = NoArray
  /\ sortResult = NoArray

\* fileCache.get(path) is undefined
NoEntry == [present |-> FALSE, checkboxes |-> <<>>, timestamp |-> 0]

\* searchFilter = { query: '', caseSensitive: false, useRegex: false }
NoSearchFilter == [query |-> <<>>, caseSensitive |-> FALSE, useRegex |-> FALSE]

\* no search filter is set
FilterUnused == searchFilter = NoSearchFilter

\* no getCheckboxesInFile call is in flight.  pc: "idle", "open" (awaiting
\* openTextDocument); filePath, now, cached: the argument and the locals;
\* pendingAtCall, filterAtCall: what becomes of lastFileCall when the call
\* ends
NoFileCall == [pc |-> "idle", filePath |-> <<>>, now |-> 0, cached |-> NoEntry,
               pendingAtCall |-> FALSE, filterAtCall |-> NoSearchFilter]

\* what a finished getCheckboxesInFile did.  kind: "cached", "parsed",
\* "failed"; cached: the entry it found; entryBefore, entryAfter: the entry
\* of the path before and after the step in which the call returned;
\* othersKept: that step left the entries of the other paths as they were;
\* checkboxes: what the call returned; document: the document of the path
\* when the call returned; pendingAtCall: the path was in
\* pendingRefreshFiles when the call was made; filterAtCall: the search
\* filter when the call was made
NoLastFileCall == [kind |-> "none", filePath |-> <<>>, now |-> 0,
                   cached |-> NoEntry, entryBefore |-> NoEntry,
                   entryAfter |-> NoEntry, othersKept |-> TRUE,
                   checkboxes |-> <<>>, document |-> NoDocument,
                   pendingAtCall |-> FALSE, filterAtCall |-> NoSearchFilter]

\* no timer has fired.  quiet: the time between the last notification and
\* the firing; paths: the pending paths the callback found; notified: the
\* paths notified since the firing before; kept: the notified paths that
\* had an entry after the callback; pendingAfter, filesCacheAfter: the
\* pending set and the file-set cache after it; signals: the change events
\* it fired
NoFiring == [fired |-> FALSE, quiet |-> 0, paths |-> {}, notified |-> {},
             hadEntry |-> {}, kept |-> {}, pendingAfter |-> {},
             filesCacheAfter |-> NoFilesCache, signals |-> 0]

\* no notification was made.  notifications: their number; lastNotify: the
\* time of the last one; burst: the notifications since the last one that
\* came a quiet period or more after the one before it, that one included;
\* burstFirings: the timer firings since then; notified: the paths
\* notified since the last firing; lastFiring: what the last firing did
NoneDebounced == [notifications |-> 0, lastNotify |-> 0, burst |-> 0,
                  burstFirings |-> 0, notified |-> {}, lastFiring |-> NoFiring]

CacheUnused ==
  /\ docs = <<>>
  /\ fileCache = <<>>
  /\ pendingRefreshFiles = {}
  /\ refreshDebounceTimer = 0
  /\ timers = {}
  /\ fileCall = NoFileCall
  /\ lastFileCall = NoLastFileCall
  /\ debounced = NoneDebounced

LineUnused ==
  /\ lineText = <<>>
  /\ oldText = <<>>
  /\ op = "init"
  /\ newValueArg = <<>>
  /\ edited = FALSE
  /\ result = "none"
  /\ validation = NotValidated

FilesUnused ==
  /\ disk = <<>>
  /\ batchSize = BATCH_SIZE
  /\ clock = 0
  /\ filesWithCheckboxesCache = NoFilesCache
  /\ call = [c \in CallIds |-> NoCall]
  /\ reading = [c \in CallIds |-> {}]
  /\ refreshed = FALSE
  /\ returned = <<>>
  /\ lastCall = NoLastCall

\* The lines the editor can hold to begin with: a free prefix of at most
\* MaxHead characters, followed by nothing or by an annotation.
HeadAlphabet == {"a", "b", Space, Equals, Pipe, "#", Marker}

Heads == UNION {[1..n -> HeadAlphabet] : n \in 0..MaxHead}

Tails ==
  { <<>>,
    <<"#", Marker, "a">>,
    <<"#", Marker, "a", Pipe, "b">>,
    <<"#", Space, Marker, Space, "a", Space, Pipe, "b">>,
    <<"#", Marker, "a", Pipe, "b", Pipe, "c">>,
    <<"#", Marker, "a", Pipe, "b", Pipe, "a">>,
    <<"#", Marker, "a", Pipe, Pipe, "b">>,
    <<"#", Marker, "b", Pipe, "a", Pipe>> }

Lines == {hd \o tl : hd \in Heads, tl \in Tails}

\* the values a tree node can hand to setCheckboxValue
NewValues == {<<"a">>, <<"c">>}

commentSyntax == getCommentSyntax(DocLanguageId)

Init ==
  /\ lineText \in Lines
  /\ oldText = lineText
  /\ op = "init"
  /\ newValueArg = <<>>
  /\ edited = FALSE
  /\ result = "none"
  /\ validation = NotValidated
  /\ ScanUnused
  /\ FilesUnused
  /\ SortUnused
  /\ CacheUnused
  /\ FilterUnused

\* toggleCheckboxAtLine(editor, lineNumber) on the line
ToggleCheckboxAtLine ==
  /\ LET cb == cbMatch(lineText, commentSyntax)
         v == varMatch(lineText, commentSyntax)
     IN  IF toggleMatches(cb, v)
         THEN \* editor.edit(...) replaces the line and resolves to true
              /\ lineText' = toggleNewText(lineText, v)
              /\ edited' = TRUE
              /\ result' = "true"
         ELSE \* return Promise.resolve(false)
              /\ lineText' = lineText
              /\ edited' = FALSE
              /\ result' = "false"
  /\ oldText' = lineText
  /\ op' = "toggle"
  /\ newValueArg' = <<>>
  /\ validation' = NotValidated
  /\ UNCHANGED notLineVars

\* the command checkbox-display.setCheckboxValue on the line
SetCheckboxValue ==
  \E newValue \in NewValues :
    /\ LET v == varMatch(lineText, commentSyntax)
       IN  IF setValueMatches(v)
           THEN lineText' = newTextOf(lineText, v, newValue) /\ edited' = TRUE
           ELSE lineText' = lineText /\ edited' = FALSE
    /\ newValueArg' = newValue
    /\ oldText' = lineText
    /\ op' = "setValue"
    /\ result' = "none"
    /\ validation' = NotValidated
    /\ UNCHANGED notLineVars

\* validateCheckboxValue(lineText, commentSyntax) on the line
Validate ==
  /\ validation' = validateCheckboxValue(lineText, commentSyntax)
  /\ op' = "validate"
  /\ oldText' = lineText
  /\ newValueArg' = <<>>
  /\ edited' = FALSE
  /\ result' = "none"
  /\ UNCHANGED <<lineText, notLineVars>>

Next == ToggleCheckboxAtLine \/ SetCheckboxValue \/ Validate

Spec == Init /\ [][Next]_vars


\* ------------------------------------------------------------ the claims

\* the matches of the line the last operation was given
OldCb == cbMatch(oldText, commentSyntax)
OldVar == varMatch(oldText, commentSyntax)

\* the last operation was a toggle, a set-value, that rewrote the line
ToggleRewrote == op = "toggle" /\ edited
SetValueRewrote == op = "setValue" /\ edited

Distinct(values) ==
  \A i, j \in 1..Len(values) : values[i] = values[j] => i = j

\* the next-value step applied n times
RECURSIVE Iterate(_, _, _)
Iterate(values, v, n) ==
  IF n = 0 THEN v ELSE Iterate(values, nextValue(values, v), n - 1)

\* The value the cycle rule asks for: values[i+1] when c first occurs at an
\* index i that is not the last, values[1] otherwise.
RuleValue(values, c) ==
  IF \E i \in 1..(Len(values) - 1) : values[i] = c
  THEN LET i == CHOOSE i \in 1..(Len(values) - 1) :
                  values[i] = c /\ \A j \in 1..(i - 1) : values[j] # c
       IN  values[i + 1]
  ELSE values[1]

\* C1: after a toggle rewrote a line with value list values and current
\* value c, the value written after the `=` is values[i+1] when c occurs in
\* values (first) at an index i that is not the last, and values[1] when c
\* is at the last index only, is not in values, or is empty; for two values
\* and for three or more alike.
CycleRule ==
  ToggleRewrote =>
    LET v == OldVar
    IN  lineText = newTextOf(oldText, v,
                     RuleValue(toggleValues(oldText, v), currentValue(oldText, v)))

\* a toggle of a three-value line stepped from the second value to the third
CycleRuleWitness ==
  /\ ToggleRewrote
  /\ LET v == OldVar
         values == toggleValues(oldText, v)
     IN  /\ Len(values) = 3
         /\ Distinct(values)
         /\ currentValue(oldText, v) = values[2]
         /\ Sub(lineText, v.q + 2, v.q + 1 + Len(values[3])) = values[3]

\* C2 as stated: for every value list a toggle reads off a line, repeated
\* values included, n next-value steps from any member of the list return
\* to that member (n the length of the list).
FullCycleClosure ==
  ToggleRewrote =>
    LET values == toggleValues(oldText, OldVar)
    IN  \A i \in 1..Len(values) :
          Iterate(values, values[i], Len(values)) = values[i]

\* C2, amended: for every value list of pairwise distinct values a toggle
\* reads off a line, n next-value steps from any member of the list return
\* to that member.
FullCycleClosureDistinct ==
  ToggleRewrote =>
    LET values == toggleValues(oldText, OldVar)
    IN  Distinct(values) =>
          \A i \in 1..Len(values) :
            Iterate(values, values[i], Len(values)) = values[i]

\* a toggle has stepped a line whose list holds three distinct values
FullCycleClosureDistinctWitness ==
  /\ ToggleRewrote
  /\ LET v == OldVar
         values == toggleValues(oldText, v)
     IN  /\ Len(values) = 3
         /\ Distinct(values)
         /\ currentValue(oldText, v) = values[3]
         /\ Sub(lineText, v.q + 2, v.q + 1 + Len(values[1])) = values[1]

\* C3: for every line with exactly two declared values a toggle reads, the
\* next-value step sends each of the two values to the other one, two steps
\* return to the value they started from, and from any current value the
\* step lands on one of the two values.
BinaryInvolution ==
  ToggleRewrote =>
    LET v == OldVar
        values == toggleValues(oldText, v)
    IN  Len(values) = 2 =>
          /\ nextValue(values, values[1]) = values[2]
          /\ nextValue(values, values[2]) = values[1]
          /\ \A i \in 1..2 : Iterate(values, values[i], 2) = values[i]
          /\ nextValue(values, currentValue(oldText, v)) \in {values[1], values[2]}

\* a toggle moved a two-value line from its first value to its second
BinaryInvolutionWitness ==
  /\ ToggleRewrote
  /\ LET v == OldVar
         values == toggleValues(oldText, v)
     IN  /\ Len(values) = 2
         /\ values[1] # values[2]
         /\ currentValue(oldText, v) = values[1]
         /\ Sub(lineText, v.q + 2, v.q + 1 + Len(values[2])) = values[2]

\* the value the last rewrite was to write, v being the match of the old line
WrittenValue(v) ==
  IF op = "toggle"
  THEN nextValue(toggleValues(oldText, v), currentValue(oldText, v))
  ELSE newValueArg

\* the old line between the `=` and the comment token: whitespace, the
\* assigned value, whitespace
OldRegion(v) == Sub(oldText, v.q + 1, v.h - 1)
WsBefore(region) == Sub(region, 1, WsRun(region, 1))
WsAfter(region) ==
  IF trim(region) = <<>> THEN <<>>
  ELSE Sub(region, WsRun(region, 1) + Len(trim(region)) + 1, Len(region))

\* C4: after a toggle rewrote a line, matching the new line again
\* (getCheckboxRegex, extractCheckboxValues) gives the value list the old
\* line gave, and extractVariableValue of the new line is the next value the
\* toggle computed; for every shape of value and of left-hand side.
RoundTrip ==
  ToggleRewrote =>
    LET cbNew == cbMatch(lineText, commentSyntax)
    IN  /\ cbNew.matched
        /\ extractCheckboxValues(lineText, cbNew)
             = extractCheckboxValues(oldText, OldCb)
        /\ extractVariableValue(lineText, commentSyntax) = Str(WrittenValue(OldVar))

\* C5 as stated: a toggle or set-value rewrite changes the assigned value
\* only: the text left of the `=`, the `=`, the whitespace between the `=`
\* and the value, the whitespace between the value and the comment token
\* and the comment token through the marker are those of the old line.
RewriteFrameBefore ==
  edited =>
    LET v == OldVar
        region == OldRegion(v)
        kept == beforeEquals(oldText, v) \o <<Equals>> \o WsBefore(region)
                  \o WrittenValue(v) \o WsAfter(region) \o cbPrefix(oldText, v)
    IN  Sub(lineText, 1, Len(kept)) = kept

\* C5, amended: after a toggle or set-value rewrite the text left of the
\* matched `=` and the `=` are those of the old line, exactly one space
\* stands between the `=` and the written value and exactly one between the
\* value and the comment token, and the comment token through the marker
\* (with the whitespace after it) is that of the old line.
RewriteFrameBeforeOneSpace ==
  edited =>
    LET v == OldVar
        q == v.q
        w == Len(WrittenValue(v))
        pre == cbPrefix(oldText, v)
    IN  /\ Sub(lineText, 1, q) = Sub(oldText, 1, q)
        /\ lineText[q] = Equals
        /\ At(lineText, q + 1) = Space
        /\ Sub(lineText, q + 2, q + 1 + w) = WrittenValue(v)
        /\ At(lineText, q + 2 + w) = Space
        /\ Sub(lineText, q + 3 + w, q + 2 + w + Len(pre)) = pre

\* a set-value rewrote a line that had no space around its value
RewriteFrameBeforeOneSpaceWitness ==
  /\ SetValueRewrote
  /\ newValueArg = <<"c">>
  /\ LET region == OldRegion(OldVar)
     IN  /\ region = <<"a">>
         /\ Len(lineText) = Len(oldText) + 2

\* C6: after a toggle or set-value rewrite the text from the marker to the
\* end of the line is the text the old line had from its marker to its end.
RewriteFrameTail ==
  edited =>
    LET m0 == MarkEnd(oldText, OldVar.h, commentSyntax) - 1
        n == Len(oldText) - m0 + 1
    IN  /\ Len(lineText) >= n
        /\ Sub(lineText, Len(lineText) - n + 1, Len(lineText))
             = Sub(oldText, m0, Len(oldText))

\* C7: a toggle of a line on which the annotation or the assignment does
\* not match leaves the line as it was and resolves to false; a set-value
\* on a line on which its expression does not match leaves the line as it
\* was.
MismatchNoChange ==
  /\ op = "toggle" =>
       (~(OldCb.matched /\ OldVar.matched) =>
          (lineText = oldText /\ ~edited /\ result = "false"))
  /\ op = "setValue" =>
       (~OldVar.matched => (lineText = oldText /\ ~edited))

\* a toggle met a line with an annotation and no assignment it could match
MismatchNoChangeWitness ==
  /\ op = "toggle"
  /\ result = "false"
  /\ lineText = oldText
  /\ \E i \in 1..Len(oldText) : oldText[i] = Equals
  /\ OldCb.matched
  /\ ~OldVar.matched

\* C8: for a line with an annotation and an extractable, non-empty current
\* value, validateCheckboxValue reports valid exactly when the current
\* value is, as it stands, one of the declared values.
ValidateMembership ==
  op = "validate" =>
    LET cb == cbMatch(lineText, commentSyntax)
        varValue == extractVariableValue(lineText, commentSyntax)
        values == extractCheckboxValues(lineText, cb)
    IN  (varValue.kind = "string" /\ varValue.value # <<>> /\ cb.matched) =>
          /\ validation.kind = "return"
          /\ validation.isValid
               <=> (\E i \in 1..Len(values) : values[i] = varValue.value)

\* a line whose current value is the second declared value was found valid
ValidateMembershipWitness ==
  /\ op = "validate"
  /\ validation.kind = "return"
  /\ validation.isValid
  /\ LET cb == cbMatch(lineText, commentSyntax)
         values == extractCheckboxValues(lineText, cb)
     IN  /\ cb.matched
         /\ Len(values) >= 2
         /\ values[2] # values[1]
         /\ extractVariableValue(lineText, commentSyntax) = Str(values[2])

\* the `=` that have a marker (comment token, marker) after them
MarkedEquals(s, hs) == {q \in 1..Len(s) : s[q] = Equals /\ \E h \in hs : h > q}

\* no `=` stands before a marker, or only whitespace stands between the
\* first such `=` and the first marker after it
CurrentValueAbsent(s) ==
  LET hs == MarkStarts(s, commentSyntax)
      qs == MarkedEquals(s, hs)
  IN  \/ qs = {}
      \/ LET q == Min(qs)
             h == Min({h \in hs : h > q})
         IN  \A k \in (q + 1)..(h - 1) : IsWs(s[k])

\* C9: validateCheckboxValue returns isValid = true, and does not raise,
\* whenever the current value is absent (no `=` before the marker, or
\* nothing between `=` and the marker) or the line has no annotation.
ValidateAbsentIsValid ==
  op = "validate" =>
    ((CurrentValueAbsent(lineText) \/ ~cbMatch(lineText, commentSyntax).matched)
       => (validation.kind = "return" /\ validation.isValid))

RECURSIVE SumLen(_, _)
SumLen(values, n) == IF n = 0 THEN 0 ELSE Len(values[n]) + SumLen(values, n - 1)

\* C10: when validateCheckboxValue reports invalid, the message is
\* `Variable value "`, the extracted value, `" does not match any carousel
\* value (`, every declared value in written order with a comma and a space
\* between neighbours, and `)`; when it reports valid there is no message.
ValidateMessage ==
  (op = "validate" /\ validation.kind = "return") =>
    IF validation.isValid THEN ~validation.hasMessage
    ELSE LET msg == validation.errorMessage
             v == extractVariableValue(lineText, commentSyntax).value
             values == extractCheckboxValues(lineText,
                                             cbMatch(lineText, commentSyntax))
             n == Len(values)
             \* where declared value i starts in the message
             at(i) == 2 + Len(v) + 1 + SumLen(values, i - 1) + 2 * (i - 1)
         IN  /\ validation.hasMessage
             /\ Len(msg) = 3 + Len(v) + SumLen(values, n) + 2 * (n - 1)
             /\ msg[1] = MsgHead
             /\ Sub(msg, 2, 1 + Len(v)) = v
             /\ msg[2 + Len(v)] = MsgMid
             /\ \A i \in 1..n :
                  Sub(msg, at(i), at(i) + Len(values[i]) - 1) = values[i]
             /\ \A i \in 1..(n - 1) :
                  /\ msg[at(i) + Len(values[i])] = ","
                  /\ msg[at(i) + Len(values[i]) + 1] = Space
             /\ msg[Len(msg)] = MsgEnd

\* a line with three declared values was found invalid
ValidateMessageWitness ==
  /\ op = "validate"
  /\ validation.kind = "return"
  /\ ~validation.isValid
  /\ validation.hasMessage
  /\ Len(extractCheckboxValues(lineText, cbMatch(lineText, commentSyntax))) = 3

\* C11: extractVariableValue never raises; it returns null exactly when no
\* `=` stands before a marker; otherwise it returns the trimmed, possibly
\* empty, text between the first `=` that stands before a marker and a
\* marker after it.
ExtractVariableValueContract ==
  op = "validate" =>
    LET r == extractVariableValue(lineText, commentSyntax)
        hs == MarkStarts(lineText, commentSyntax)
        qs == MarkedEquals(lineText, hs)
    IN  /\ r.kind # "throw"
        /\ validation.kind # "throw"
        /\ (r.kind = "null") <=> (qs = {})
        /\ qs # {} =>
             \E h \in hs :
               /\ h > Min(qs)
               /\ r = Str(trim(Sub(lineText, Min(qs) + 1, h - 1)))

\* ------------------------------------------------ the scan of a document

\* Longest document scanned, in lines.
MaxLines == 2

Unnamed == <<"(unnamed)">>

\* lineText.match(varNameRegex) with
\* `(.*)=\s*(.+?)\s*(${escapedComment}\s*\[CB\]:)`, and varName
varNameOf(s, cs) ==
  LET hs == MarkStarts(s, cs)
      qs == {q \in 1..Len(s) : s[q] = Equals /\ VarWs(s, q, hs) # {}}
  IN  IF qs = {} THEN Unnamed ELSE trim(Sub(s, 1, Max(qs) - 1))

\* the characters of a variable name: the name given to a line that has
\* none is the one token that stands for several characters
charsOf(varName) ==
  IF varName = Unnamed THEN <<"(", "u", "n", "a", "m", "e", "d", ")">>
  ELSE varName

\* String.prototype.toLowerCase: "X" is the upper-case letter of the names
\* and the queries
toLowerCase(t) == [k \in 1..Len(t) |-> IF t[k] = "X" THEN "x" ELSE t[k]]

\* String.prototype.includes
stringIncludes(t, q) ==
  \E k \in 0..(Len(t) - Len(q)) : \A j \in 1..Len(q) : t[k + j] = q[j]

\* new RegExp(query, flags) throws a SyntaxError: of the characters of the
\* queries "(" is the one the pattern syntax gives a meaning to, and a group
\* that is opened and not closed is no pattern
invalidRegExp(query) == \E k \in 1..Len(query) : query[k] = "("

\* new RegExp(query, flags).test(varName) for a pattern of letters: the
\* letters are found in the name, whatever their case with the flag i
regexTest(query, ignoreCase, varName) ==
  IF ignoreCase THEN stringIncludes(toLowerCase(varName), toLowerCase(query))
  ELSE stringIncludes(varName, query)

\* the body of matchesFilter, filter being this.searchFilter
matchesFilterOf(filter, varName) ==
  LET query == filter.query
      caseSensitive == filter.caseSensitive
      useRegex == filter.useRegex
      name == charsOf(varName)
  IN  IF query = <<>> THEN TRUE
      ELSE IF useRegex
      THEN IF invalidRegExp(query) THEN FALSE
           ELSE regexTest(query, ~caseSensitive, name)
      ELSE LET searchStr == IF caseSensitive THEN name ELSE toLowerCase(name)
               queryStr == IF caseSensitive THEN query ELSE toLowerCase(query)
           IN  stringIncludes(searchStr, queryStr)

\* this.matchesFilter(varName)
matchesFilter(varName) == matchesFilterOf(searchFilter, varName)

Undefined == [kind |-> "undefined", value |-> <<>>]

\* varValue || undefined
varValueOrUndefined(varValue) ==
  IF varValue.kind = "string" /\ varValue.value # <<>> THEN varValue
  ELSE Undefined

\* the body of the loop for line i (zero-based) with text s: the records
\* it pushes, or the TypeError of extractVariableValue
ScanLine(s, cs, i) ==
  LET cb == cbMatch(s, cs)
  IN  IF ~cb.matched THEN [threw |-> FALSE, items |-> <<>>]
      ELSE LET varValue == extractVariableValue(s, cs)
               varName == varNameOf(s, cs)
           IN  IF varValue.kind = "throw" THEN [threw |-> TRUE, items |-> <<>>]
               ELSE IF ~matchesFilter(varName)
               THEN [threw |-> FALSE, items |-> <<>>]
               ELSE [threw |-> FALSE,
                     items |-> << [lineNumber |-> i,
                                   varName |-> varName,
                                   varValue |-> varValueOrUndefined(varValue),
                                   checkboxValues |->
                                     extractCheckboxValues(s, cb)] >>]

\* the loop over the lines, from the line at (one-based) position k on
RECURSIVE ScanFrom(_, _, _)
ScanFrom(lines, cs, k) ==
  IF k > Len(lines) THEN [threw |-> FALSE, items |-> <<>>]
  ELSE LET one == ScanLine(lines[k], cs, k - 1)
       IN  IF one.threw THEN one
           ELSE LET rest == ScanFrom(lines, cs, k + 1)
                IN  IF rest.threw THEN rest
                    ELSE [threw |-> FALSE, items |-> one.items \o rest.items]

\* findCheckboxesInDocument(document): the array it returns, or the
\* exception it ends with.  escapeRegex calls str.replace, which a value
\* that is no string does not have.
findCheckboxesInDocument(doc) ==
  LET cs == getCommentSyntax(doc.languageId)
  IN  IF cs = InheritedMember THEN [threw |-> TRUE, items |-> <<>>]
      ELSE ScanFrom(doc.lines, cs, 1)

\* The lines a scanned document is made of.
ScanLines ==
  { <<>>,
    <<"x", Equals, "a">>,
    <<"x", Equals, "a", "#", Marker, "a", Pipe, "b">>,
    <<"x", Space, Equals, Space, "b", Space, "#", Space, Marker, Space,
      "a", Space, Pipe, Space, "b">>,
    <<"x", Equals, "a", "/", "/", Marker, "a", Pipe, "b", Pipe, "c">>,
    <<"#", Marker, "a">>,
    <<"x", Equals, "#", Marker, "a", Pipe, "b">>,
    <<"x", Equals, "a", "#", Marker>>,
    <<"x", Equals, "a", "#", Marker, Space>>,
    <<"x", Equals, "a", "#", Marker, "a", Pipe, Pipe, "b">>,
    <<"x", Equals, "a", "#", Marker, "a", Pipe>> }

\* The language identifiers of the table, one that is not in it, and one
\* that names a member of Object.prototype.
LanguageIds ==
  {"python", "ruby", "perl", "r", "yaml", "bash", "shell", "powershell",
   "javascript", "typescript", "java", "c", "cpp", "csharp", "go", "rust",
   "swift", "kotlin", "php", "dart", "plaintext", "constructor"}

Documents ==
  [languageId : LanguageIds,
   lines : UNION {[1..n -> ScanLines] : n \in 0..MaxLines}]

InitScan ==
  /\ document \in Documents
  /\ checkboxes = <<>>
  /\ scanOutcome = "none"
  /\ LineUnused
  /\ FilesUnused
  /\ SortUnused
  /\ CacheUnused
  /\ FilterUnused

\* findCheckboxesInDocument(document) runs to its end
FindCheckboxesInDocument ==
  /\ LET r == findCheckboxesInDocument(document)
     IN  /\ scanOutcome' = IF r.threw THEN "throw" ELSE "return"
         /\ checkboxes' = r.items
  /\ UNCHANGED <<document, notScanVars>>

\* the user replaces one line of the document
ChangeLine ==
  \E i \in 1..Len(document.lines), s \in ScanLines :
    /\ s # document.lines[i]
    /\ document' = [document EXCEPT !.lines[i] = s]
    /\ checkboxes' = <<>>
    /\ scanOutcome' = "none"
    /\ UNCHANGED notScanVars

NextScan == FindCheckboxesInDocument \/ ChangeLine

SpecScan == InitScan /\ [][NextScan]_vars

\* ------------------------------------- the claims on the scan of a document

\* the comment token of the scanned document and the text of a record's line
DocCs == getCommentSyntax(document.languageId)
LineOf(rec) == document.lines[rec.lineNumber + 1]

\* the records the last scan made for the line at (one-based) position k
RecordsAt(k) ==
  {j \in 1..Len(checkboxes) : checkboxes[j].lineNumber = k - 1}

\* C12: the values of every record a scan returns are the segments of the
\* whole text from after the marker to the end of the line, split on `|`
\* and trimmed, in written order.
ValuesAreAllSegments ==
  scanOutcome = "return" =>
    \A j \in 1..Len(checkboxes) :
      LET s == LineOf(checkboxes[j])
          m == MarkEnd(s, cbMatch(s, DocCs).h, DocCs)
      IN  checkboxes[j].checkboxValues = SplitTrim(Sub(s, m, Len(s)))

\* C13: every record a scan of a document returns has at least one value.
ValuesNonEmpty ==
  \A j \in 1..Len(checkboxes) : Len(checkboxes[j].checkboxValues) >= 1

\* a scan returned two records, one of them with a single value
ValuesNonEmptyWitness ==
  /\ scanOutcome = "return"
  /\ Len(checkboxes) = 2
  /\ \E j \in 1..2 : Len(checkboxes[j].checkboxValues) = 1
  /\ \E j \in 1..2 : Len(checkboxes[j].checkboxValues) = 2

\* a marker of the line has nothing, or whitespace only, after it
NoValueContent(s, cs) ==
  \E h \in MarkStarts(s, cs) :
    \A k \in MarkEnd(s, h, cs)..Len(s) : IsWs(s[k])

\* C14: a scan does not raise on a line whose marker is followed by no
\* value content, and it records no annotation for such a line: no record
\* holds an empty-string value as its only value.
NoValueContentNoAnnotation ==
  (scanOutcome # "none" /\ DocCs # InheritedMember) =>
    \A k \in 1..Len(document.lines) :
      NoValueContent(document.lines[k], DocCs) =>
        /\ extractVariableValue(document.lines[k], DocCs).kind # "throw"
        /\ RecordsAt(k) = {}

SlashLanguages ==
  {"javascript", "typescript", "java", "c", "cpp", "csharp", "go", "rust",
   "swift", "kotlin", "php", "dart"}

\* C15: for every language identifier getCommentSyntax returns a comment
\* token without error: `//` for the slash-comment languages of the table
\* and `#` for every other identifier; a scan never fails for the
\* identifier of its document.
CommentSyntaxTotal ==
  scanOutcome # "none" =>
    /\ DocCs = IF document.languageId \in SlashLanguages
               THEN <<"/", "/">> ELSE <<"#">>
    /\ (document.lines = <<>> => scanOutcome = "return")

\* the line can be scanned: the annotation matches and the value is read
WellFormed(s, cs) ==
  cbMatch(s, cs).matched /\ extractVariableValue(s, cs).kind # "throw"

\* C16: a scan never fails because of one line: it returns, and every
\* well-formed annotated line of the document has its record, whatever
\* the other lines are.
ScanSurvivesMalformedLine ==
  (scanOutcome # "none" /\ DocCs # InheritedMember) =>
    /\ scanOutcome = "return"
    /\ \A k \in 1..Len(document.lines) :
         WellFormed(document.lines[k], DocCs) => RecordsAt(k) # {}

\* C17: the records of a document are in strictly ascending lineNumber
\* order, and every line that matches the annotation expression has
\* exactly one record (the search filter being unset).
PerFileOrdering ==
  (scanOutcome # "none" /\ DocCs # InheritedMember) =>
    /\ \A i, j \in 1..Len(checkboxes) :
         i < j => checkboxes[i].lineNumber < checkboxes[j].lineNumber
    /\ \A k \in 1..Len(document.lines) :
         Cardinality(RecordsAt(k))
           = IF cbMatch(document.lines[k], DocCs).matched THEN 1 ELSE 0

\* ----------------------------------------------- the scan of the workspace

\* private readonly FILES_CACHE_TTL = 30000
FILES_CACHE_TTL == 30000

\* file.path.split('/').pop(), a path being the sequence of its segments
fileName(path) == path[Len(path)]

\* the order localeCompare puts the file names in
NameOrder == <<"a.py", "b.py">>

NameRank(name) == CHOOSE k \in 1..Len(NameOrder) : NameOrder[k] = name

\* (a.fileName || '').localeCompare(b.fileName || ''): negative, zero, positive
localeCompare(a, b) == NameRank(a) - NameRank(b)

\* the item getCheckboxFiles makes for a file
FileItem(path) ==
  [type |-> "file", filePath |-> path, fileName |-> fileName(path)]

\* Array.prototype.sort with the comparator of applySorting; the sort is
\* stable: an item goes behind the items that compare equal to it
RECURSIVE InsertByName(_, _)
InsertByName(sorted, x) ==
  IF sorted = <<>> THEN <<x>>
  ELSE IF localeCompare(x.fileName, Head(sorted).fileName) < 0
  THEN <<x>> \o sorted
  ELSE <<Head(sorted)>> \o InsertByName(Tail(sorted), x)

RECURSIVE SortByName(_)
SortByName(items) ==
  IF items = <<>> THEN <<>>
  ELSE InsertByName(SortByName(Sub(items, 1, Len(items) - 1)),
                    items[Len(items)])

\* fs.promises.stat(item.filePath).then(s => s.mtimeMs).catch(() => 0); a
\* file st says nothing about cannot be looked at
mtimeOf(st, path) ==
  IF path \in DOMAIN st /\ st[path].ok THEN st[path].mtimeMs ELSE 0

\* mapped.sort((a, b) => b.mtime - a.mtime), a stable sort: an item goes in
\* front of the first item with a smaller mtime
RECURSIVE InsertByTime(_, _, _)
InsertByTime(sorted, x, st) ==
  IF sorted = <<>> THEN <<x>>
  ELSE IF mtimeOf(st, Head(sorted).filePath) - mtimeOf(st, x.filePath) < 0
  THEN <<x>> \o sorted
  ELSE <<Head(sorted)>> \o InsertByTime(Tail(sorted), x, st)

RECURSIVE SortByTime(_, _)
SortByTime(items, st) ==
  IF items = <<>> THEN <<>>
  ELSE InsertByTime(SortByTime(Sub(items, 1, Len(items) - 1), st),
                    items[Len(items)], st)

\* applySorting(items): the elements of the array it resolves to
applySorting(items, mode, st) ==
  IF mode = "Alphabetical" THEN SortByName(items)
  ELSE IF mode = "Last Modified" THEN SortByTime(items, st)
  ELSE items

\* applySorting(items): whether the array it resolves to is a new one
\* ([...items].sort(...), mapped.map(...)) or the array it was given
\* (return items)
applySortingCopies(mode) == mode \in {"Alphabetical", "Last Modified"}

\* A test for the marker that every file passes.
includesAnything(content) == TRUE

\* content.includes('[CB]:')
includesMarker(content) == \E k \in 1..Len(content) : content[k] = Marker

\* fs.promises.readFile(file.fsPath, 'utf8'): the content, or a rejection
readFile(d, path) ==
  IF d[path].readable THEN [ok |-> TRUE, content |-> d[path].content]
  ELSE [ok |-> FALSE, content |-> <<>>]

\* fileMap.set(file.fsPath, item): a Map keeps the place of a key it has
mapSet(fileMap, item) ==
  IF \E j \in 1..Len(fileMap) : fileMap[j].filePath = item.filePath
  THEN [j \in 1..Len(fileMap) |->
          IF fileMap[j].filePath = item.filePath THEN item ELSE fileMap[j]]
  ELSE Append(fileMap, item)

\* A read handler that takes a failed read for a file with the marker.
afterReadKeepsFailed(fileMap, path, r) ==
  IF ~r.ok \/ includesMarker(r.content) THEN mapSet(fileMap, FileItem(path))
  ELSE fileMap

\* the try / catch around one read: fileMap after the read r of path
afterRead(fileMap, path, r) ==
  IF r.ok /\ includesMarker(r.content) THEN mapSet(fileMap, FileItem(path))
  ELSE fileMap

\* files.slice(i, i + BATCH_SIZE), i zero-based
batchOf(files, i, size) ==
  {files[k] : k \in {k \in 1..Len(files) : i < k /\ k <= i + size}}

\* A freshness test that takes an entry of age FILES_CACHE_TTL for fresh.
cacheFreshInclusive(cache, now) ==
  cache.present /\ (now - cache.timestamp) <= FILES_CACHE_TTL

\* this.filesWithCheckboxesCache &&
\*   (now - this.filesWithCheckboxesCache.timestamp) < this.FILES_CACHE_TTL
cacheFresh(cache, now) ==
  cache.present /\ (now - cache.timestamp) < FILES_CACHE_TTL

\* The candidate files findFiles can enumerate, a path being the sequence
\* of its segments.
Paths == {<<"src", "b.py">>, <<"lib", "a.py">>}

Contents ==
  { <<"x", Equals, "a">>,
    <<"x", Equals, "a", "#", Marker, "a", Pipe, "b">> }

\* a file cannot be read, or it has one of the contents
FileStates ==
  {[readable |-> FALSE, content |-> <<>>]}
    \cup {[readable |-> TRUE, content |-> c] : c \in Contents}

\* The batch sizes the scans run with: the BATCH_SIZE of the code, and the
\* size that makes a scan of few files take more than one batch.
BatchSizes == {1, BATCH_SIZE}

\* the moments Date.now() is looked at: the end of the time-to-live of a
\* scan made at 0, and the millisecond before it
Times == {0, FILES_CACHE_TTL - 1, FILES_CACHE_TTL}

\* the orders findFiles can list the files of S in
Orders(S) ==
  {f \in [1..Cardinality(S) -> S] : \A i, j \in 1..Cardinality(S) :
                                       f[i] = f[j] => i = j}

InitFiles ==
  /\ disk \in UNION {[P -> FileStates] : P \in SUBSET Paths}
  /\ batchSize \in BatchSizes
  /\ clock = 0
  /\ filesWithCheckboxesCache = NoFilesCache
  /\ call = [c \in CallIds |-> NoCall]
  /\ reading = [c \in CallIds |-> {}]
  /\ refreshed = FALSE
  /\ returned = <<>>
  /\ lastCall = NoLastCall
  /\ LineUnused
  /\ ScanUnused
  /\ SortUnused
  /\ CacheUnused
  /\ FilterUnused

\* A cache write that takes no timestamp.
cacheOfNoTimestamp(items, now) ==
  [present |-> TRUE, items |-> items, timestamp |-> 0]

\* this.filesWithCheckboxesCache = { items, timestamp: now }
cacheOf(items, now) == [present |-> TRUE, items |-> items, timestamp |-> now]

\* the end of the scan of call c, rec being its locals: the cache is
\* replaced, the items are sorted and returned
FinishScan(c, rec) ==
  LET items == rec.fileMap
      cache == cacheOf(items, rec.now)
  IN  /\ filesWithCheckboxesCache' = cache
      /\ returned' = applySorting(items, sortMode, stats)
      /\ lastCall' = [kind |-> "scanned", now |-> rec.now,
                      cacheBefore |-> rec.cacheBefore, cacheAfter |-> cache,
                      enumerations |-> 1, reads |-> rec.reads,
                      afterRefresh |-> rec.afterRefresh]
      /\ call' = [call EXCEPT ![c] = NoCall]
      /\ reading' = [reading EXCEPT ![c] = {}]

\* getCheckboxFiles() is called, whether or not an earlier call is still
\* scanning: it returns from the cache, or it starts the enumeration and
\* waits for it.  The call takes the first identifier that is free.
GetCheckboxFiles ==
  /\ \E c \in CallIds :
       /\ call[c].pc = "idle"
       /\ \A d \in CallIds : d < c => call[d].pc # "idle"
       /\ LET now == clock
          IN  IF cacheFresh(filesWithCheckboxesCache, now)
              THEN /\ returned' = applySorting(filesWithCheckboxesCache.items,
                                                sortMode, stats)
                   /\ lastCall' = [kind |-> "cached", now |-> now,
                                   cacheBefore |-> filesWithCheckboxesCache,
                                   cacheAfter |-> filesWithCheckboxesCache,
                                   enumerations |-> 0, reads |-> <<>>,
                                   afterRefresh |-> refreshed]
                   /\ UNCHANGED call
              ELSE /\ call' = [call EXCEPT ![c] =
                                 [NoCall EXCEPT
                                    !.pc = "findFiles", !.now = now,
                                    !.cacheBefore = filesWithCheckboxesCache,
                                    !.afterRefresh = refreshed]]
                   /\ returned' = <<>>
                   /\ lastCall' = NoLastCall
  /\ refreshed' = FALSE
  /\ UNCHANGED <<disk, batchSize, clock, filesWithCheckboxesCache, reading,
                 notFilesVars>>

\* findFiles resolves with the candidate files in some order; the reads of
\* the first batch start, or, with no file, the scan ends
FindFilesResolves ==
  /\ \E c \in CallIds :
       /\ call[c].pc = "findFiles"
       /\ \E files \in Orders(DOMAIN disk) :
            IF files = <<>>
            THEN FinishScan(c, call[c])
            ELSE /\ call' = [call EXCEPT ![c].pc = "batch", ![c].files = files]
                 /\ reading' = [reading EXCEPT
                                  ![c] = batchOf(files, 0, batchSize)]
                 /\ UNCHANGED <<filesWithCheckboxesCache, returned, lastCall>>
  /\ UNCHANGED <<disk, batchSize, clock, refreshed, notFilesVars>>

\* one read of the current batch of a call settles; with the last read of
\* the batch Promise.all resolves, and the next batch starts or the scan ends
ReadSettles ==
  /\ \E c \in CallIds :
       /\ call[c].pc = "batch"
       /\ \E path \in reading[c] :
            LET rec == [call[c] EXCEPT
                          !.fileMap = afterRead(call[c].fileMap, path,
                                                readFile(disk, path)),
                          !.reads = Append(call[c].reads, path)]
                i == rec.i + batchSize
            IN  IF reading[c] # {path}
                THEN /\ call' = [call EXCEPT ![c] = rec]
                     /\ reading' = [reading EXCEPT ![c] = reading[c] \ {path}]
                     /\ UNCHANGED <<filesWithCheckboxesCache, returned, lastCall>>
                ELSE IF i < Len(rec.files)
                THEN /\ call' = [call EXCEPT ![c] = [rec EXCEPT !.i = i]]
                     /\ reading' = [reading EXCEPT
                                      ![c] = batchOf(rec.files, i, batchSize)]
                     /\ UNCHANGED <<filesWithCheckboxesCache, returned, lastCall>>
                ELSE FinishScan(c, rec)
  /\ UNCHANGED <<disk, batchSize, clock, refreshed, notFilesVars>>

\* time passes; what the last call did is forgotten
Tick ==
  /\ \E t \in Times : t > clock /\ clock' = t
  /\ returned' = <<>>
  /\ lastCall' = NoLastCall
  /\ UNCHANGED <<disk, batchSize, filesWithCheckboxesCache, call, reading,
                 refreshed, notFilesVars>>

\* refresh(): invalidateAllCaches drops the entries of the per-file cache
\* and the file-set cache
Refresh ==
  /\ fileCache' = [p \in DOMAIN fileCache |-> NoEntry]
  /\ filesWithCheckboxesCache' = NoFilesCache
  /\ refreshed' = TRUE
  /\ UNCHANGED <<clock, docs, pendingRefreshFiles, refreshDebounceTimer, timers,
                 fileCall, lastFileCall, debounced, notCacheVars>>

\* a candidate file changes on disk while no scan is in flight; what the
\* last call did is forgotten with the files it saw
DiskChanges ==
  /\ \A c \in CallIds : call[c].pc = "idle"
  /\ \E path \in DOMAIN disk, st \in FileStates :
       /\ st # disk[path]
       /\ disk' = [disk EXCEPT ![path] = st]
  /\ returned' = <<>>
  /\ lastCall' = NoLastCall
  /\ UNCHANGED <<batchSize, clock, filesWithCheckboxesCache, call, reading,
                 refreshed, notFilesVars>>

NextFiles ==
  \/ GetCheckboxFiles
  \/ FindFilesResolves
  \/ ReadSettles
  \/ Tick
  \/ Refresh
  \/ DiskChanges

SpecFiles == InitFiles /\ [][NextFiles]_vars

\* ----------------------------------- the claims on the scan of the workspace

\* the paths of the items the last call returned
ReturnedPaths == {returned[j].filePath : j \in 1..Len(returned)}

\* the candidate files that can be read and hold the marker
MarkedFiles ==
  {p \in DOMAIN disk :
     disk[p].readable /\ \E k \in 1..Len(disk[p].content) :
                            disk[p].content[k] = Marker}

\* C18: whatever the candidate files, the batch size and the order in
\* which the reads of a batch settle, a scan returns the readable
\* candidates that hold the marker: every one of them, each once, and no
\* other file.
ScanResultExact ==
  lastCall.kind = "scanned" =>
    /\ \A i, j \in 1..Len(returned) :
         returned[i].filePath = returned[j].filePath => i = j
    /\ ReturnedPaths = MarkedFiles

\* a scan read two files in one batch, and the read of the file listed
\* last by name settled first
ScanResultExactWitness ==
  /\ lastCall.kind = "scanned"
  /\ batchSize = BATCH_SIZE
  /\ Len(returned) = 2
  /\ lastCall.cacheAfter.items # returned

\* C19: a scan ends whatever reads fail: every candidate was read, no
\* file whose read failed is in the result, and every readable candidate
\* that holds the marker is.
UnreadableSkipped ==
  lastCall.kind = "scanned" =>
    /\ {lastCall.reads[j] : j \in 1..Len(lastCall.reads)} = DOMAIN disk
    /\ \A p \in DOMAIN disk : ~disk[p].readable => p \notin ReturnedPaths
    /\ MarkedFiles \subseteq ReturnedPaths

\* a scan of one file a batch met an unreadable file first and returned
\* the file it read after it
UnreadableSkippedWitness ==
  /\ lastCall.kind = "scanned"
  /\ batchSize = 1
  /\ Len(lastCall.reads) = 2
  /\ ~disk[lastCall.reads[1]].readable
  /\ ReturnedPaths = {lastCall.reads[2]}

\* the elements of a sequence, as a set
Elements(seq) == {seq[j] : j \in 1..Len(seq)}

\* C20: a call at time t that finds a cached file-set of timestamp s
\* enumerates nothing, reads nothing, leaves the cache as it is and
\* returns the cached items when t - s < 30000; when t - s >= 30000 it
\* scans, and the cache then holds the result of that scan with timestamp t.
CacheFreshness ==
  (lastCall.kind # "none" /\ lastCall.cacheBefore.present) =>
    IF lastCall.now - lastCall.cacheBefore.timestamp < 30000
    THEN /\ lastCall.kind = "cached"
         /\ lastCall.enumerations = 0
         /\ lastCall.reads = <<>>
         /\ lastCall.cacheAfter = lastCall.cacheBefore
         /\ Len(returned) = Len(lastCall.cacheBefore.items)
         /\ Elements(returned) = Elements(lastCall.cacheBefore.items)
    ELSE /\ lastCall.kind = "scanned"
         /\ lastCall.enumerations = 1
         /\ lastCall.cacheAfter.present
         /\ lastCall.cacheAfter.timestamp = lastCall.now
         /\ Elements(lastCall.cacheAfter.items) = Elements(returned)

\* a call found an entry one millisecond short of the time-to-live and
\* returned its items, which the files on disk no longer match
CacheFreshnessWitness ==
  /\ lastCall.kind = "cached"
  /\ lastCall.now - lastCall.cacheBefore.timestamp = 29999
  /\ returned # <<>>
  /\ ReturnedPaths # MarkedFiles

\* the calls whose scan is outstanding
Scanning == {c \in CallIds : call[c].pc # "idle"}

\* the reads in flight: the call and the file of each
ReadsInFlight == {<<c, p>> \in CallIds \X Paths : p \in reading[c]}

\* C22: the first getCheckboxFiles called after refresh() is never
\* answered from the cache: it scans the files.
RefreshRecomputes ==
  lastCall.afterRefresh => lastCall.kind # "cached"

\* C27: at most one scan is outstanding, and no file has two reads in
\* flight.
ScanSuppressed ==
  /\ Cardinality(Scanning) <= 1
  /\ \A c, d \in CallIds : c # d => reading[c] \cap reading[d] = {}

\* C28: the reads in flight are never more than the batch size, and the
\* reads in flight for a call are files of one batch of its list.
BoundedReads ==
  /\ Cardinality(ReadsInFlight) <= batchSize
  /\ \A c \in CallIds :
       reading[c] \subseteq batchOf(call[c].files, call[c].i, batchSize)

\* ----------------------------------------------- the sort of the file list

\* The files the sorted list is made of: two of them have the same name.
SortPaths == Paths \cup {<<"src", "a.py">>}

SortModes == {"Alphabetical", "Last Modified", "None"}

\* What stat gives for a file: a failure, or its mtimeMs, which is negative
\* for a file dated before 1970.
StatOutcomes ==
  {[ok |-> FALSE, mtimeMs |-> 0]}
    \cup {[ok |-> TRUE, mtimeMs |-> m] : m \in {-1, 1, 2}}

\* the items arrays a scan can leave in the cache: files with the marker,
\* in the order their reads settled
ItemArrays ==
  {[j \in 1..Len(o) |-> FileItem(o[j])] :
     o \in UNION {Orders(S) : S \in SUBSET SortPaths}}

\* the array applySorting(array) resolves to
sorted(array, mode, st) ==
  IF applySortingCopies(mode)
  THEN [ref |-> array.ref + 1, elems |-> applySorting(array.elems, mode, st)]
  ELSE array

InitSort ==
  /\ sortMode \in SortModes
  /\ stats \in [SortPaths -> StatOutcomes]
  /\ sortCache = NoArray
  /\ sortResult = NoArray
  /\ LineUnused
  /\ ScanUnused
  /\ FilesUnused
  /\ CacheUnused
  /\ FilterUnused

\* getCheckboxFiles() with no fresh cache: the scan builds the items array,
\* stores it in the cache and returns applySorting(items)
ScanAndSort ==
  /\ sortCache = NoArray
  /\ \E items \in ItemArrays :
       LET array == [ref |-> 1, elems |-> items]
       IN  /\ sortCache' = array
           /\ sortResult' = sorted(array, sortMode, stats)
  /\ UNCHANGED <<sortMode, stats, notSortVars>>

\* getCheckboxFiles() with a fresh cache:
\* return this.applySorting(this.filesWithCheckboxesCache.items)
SortCached ==
  /\ sortCache # NoArray
  /\ sortResult' = sorted(sortCache, sortMode, stats)
  /\ UNCHANGED <<sortMode, stats, sortCache, notSortVars>>

\* setSortMode(mode): the mode is set, the caches are dropped
SetSortMode ==
  /\ \E mode \in SortModes : sortMode' = mode
  /\ sortCache' = NoArray
  /\ sortResult' = NoArray
  /\ UNCHANGED <<stats, notSortVars>>

\* the modification time of a file changes, or can no longer be read; what
\* was handed out before is forgotten
StatChanges ==
  /\ \E path \in SortPaths, st \in StatOutcomes :
       /\ st # stats[path]
       /\ stats' = [stats EXCEPT ![path] = st]
  /\ sortResult' = NoArray
  /\ UNCHANGED <<sortMode, sortCache, notSortVars>>

NextSort == ScanAndSort \/ SortCached \/ SetSortMode \/ StatChanges

SpecSort == InitSort /\ [][NextSort]_vars

\* --------------------------------------------------- the claims on the sort

\* C29: in every sort mode, handing out the file list leaves the cached
\* items array as it is, elements and order, and the array handed to the
\* caller is another array than the cached one.
SortCopiesCache ==
  [][(sortResult' # NoArray) =>
       /\ (sortCache # NoArray => sortCache' = sortCache)
       /\ sortResult'.ref # sortCache'.ref]_vars

\* the file named by item j of the sorted list could not be looked at
Unreadable(j) == ~stats[sortResult.elems[j].filePath].ok

\* C30: the list handed out is a permutation of the cached list; in mode
\* Alphabetical the names do not decrease along it; in mode Last Modified
\* the modification times do not increase along it and the files whose
\* time cannot be read come after all the others; in mode None it is the
\* cached list.
SortPolicy ==
  sortResult # NoArray =>
    LET r == sortResult.elems
    IN  /\ Len(r) = Len(sortCache.elems)
        /\ Elements(r) = Elements(sortCache.elems)
        /\ sortMode = "Alphabetical" =>
             \A i, j \in 1..Len(r) :
               i < j => NameRank(r[i].fileName) <= NameRank(r[j].fileName)
        /\ sortMode = "Last Modified" =>
             \A i, j \in 1..Len(r) :
               i < j =>
                 /\ Unreadable(i) => Unreadable(j)
                 /\ (~Unreadable(i) /\ ~Unreadable(j)) =>
                      stats[r[i].filePath].mtimeMs >= stats[r[j].filePath].mtimeMs
        /\ sortMode = "None" => r = sortCache.elems

\* ------------------------------ the per-file cache and the debounced refresh

\* The notifications (edits and refreshCheckbox calls) of a behaviour.
MaxNotifications == 2

\* private readonly FILE_CACHE_TTL = 10000
FILE_CACHE_TTL == 10000

\* setTimeout(() => {...}, 500)
DEBOUNCE_DELAY == 500

\* `cached && (now - cached.timestamp) < this.FILE_CACHE_TTL` with an
\* inclusive bound
fileCacheFreshInclusive(cached, now) ==
  cached.present /\ now - cached.timestamp <= FILE_CACHE_TTL

\* cached && (now - cached.timestamp) < this.FILE_CACHE_TTL
fileCacheFresh(cached, now) ==
  cached.present /\ now - cached.timestamp < FILE_CACHE_TTL

\* a notification that forgets the paths notified before it
pendingOnlyLast(pending, filePath) == {filePath}

\* this.pendingRefreshFiles.add(filePath)
pendingAdd(pending, filePath) == pending \cup {filePath}

\* a notification that sets a timer and clears none
setTimerKeepsOld(armed, handle, timer) == armed \cup {timer}

\* if (this.refreshDebounceTimer) clearTimeout(this.refreshDebounceTimer),
\* then setTimeout: the timers armed afterwards
setTimer(armed, handle, timer) ==
  {t \in armed : t.handle # handle} \cup {timer}

\* a timer set one millisecond short
dueAfterShort(now) == now + DEBOUNCE_DELAY - 1

\* when a timer set at `now` with the delay 500 can fire at the earliest
dueAfter(now) == now + DEBOUNCE_DELAY

\* a callback that deletes the entry of one pending path only
deletePendingOne(cache, pending) ==
  IF pending = {} THEN cache
  ELSE LET fp == CHOOSE q \in pending : TRUE
       IN  [p \in DOMAIN cache |-> IF p = fp THEN NoEntry ELSE cache[p]]

\* a callback that deletes every entry
deletePendingAll(cache, pending) == [p \in DOMAIN cache |-> NoEntry]

\* for (const fp of this.pendingRefreshFiles) this.fileCache.delete(fp)
deletePending(cache, pending) ==
  [p \in DOMAIN cache |-> IF p \in pending THEN NoEntry ELSE cache[p]]

\* The document every file has to begin with: one annotated line.
FirstDocument ==
  [languageId |-> "python",
   lines |-> << <<"x", Equals, "a", "#", Marker, "a", Pipe, "b">> >>]

\* The documents of the files: the first one, the same after its value was
\* changed, and one that findCheckboxesInDocument throws on.
CacheDocuments ==
  { FirstDocument,
    [languageId |-> "python",
     lines |-> << <<"x", Equals, "b", "#", Marker, "a", Pipe, "b">> >>],
    [languageId |-> "python",
     lines |-> << <<"x", Equals, "#", Marker, "a", Pipe, "b">> >>] }

\* the moments Date.now() is looked at and timers can fire: the end of the
\* quiet period and of the time-to-live of an entry, and the millisecond
\* before each
CacheTimes ==
  {0, DEBOUNCE_DELAY - 1, DEBOUNCE_DELAY, FILE_CACHE_TTL - 1, FILE_CACHE_TTL}

InitCache ==
  /\ docs = [p \in Paths |-> FirstDocument]
  /\ fileCache = [p \in Paths |-> NoEntry]
  /\ pendingRefreshFiles = {}
  /\ refreshDebounceTimer = 0
  /\ timers = {}
  /\ fileCall = NoFileCall
  /\ lastFileCall = NoLastFileCall
  /\ debounced = NoneDebounced
  /\ LineUnused
  /\ ScanUnused
  /\ FilesUnused
  /\ SortUnused
  /\ FilterUnused

\* getCheckboxesInFile(filePath) is called: it returns the cached
\* checkboxes, or it starts to open the document and waits for it
GetCheckboxesInFile ==
  /\ fileCall.pc = "idle"
  /\ \E filePath \in Paths :
       LET cached == fileCache[filePath]
           now == clock
       IN  IF fileCacheFresh(cached, now)
           THEN /\ lastFileCall' =
                     [kind |-> "cached", filePath |-> filePath, now |-> now,
                      cached |-> cached, entryBefore |-> cached,
                      entryAfter |-> cached, othersKept |-> TRUE,
                      checkboxes |-> cached.checkboxes,
                      document |-> docs[filePath],
                      pendingAtCall |-> filePath \in pendingRefreshFiles,
                      filterAtCall |-> searchFilter]
                /\ UNCHANGED fileCall
           ELSE /\ fileCall' = [pc |-> "open", filePath |-> filePath,
                                now |-> now, cached |-> cached,
                                pendingAtCall |->
                                  filePath \in pendingRefreshFiles,
                                filterAtCall |-> searchFilter]
                /\ lastFileCall' = NoLastFileCall
  /\ UNCHANGED <<clock, filesWithCheckboxesCache, refreshed, docs, fileCache,
                 pendingRefreshFiles, refreshDebounceTimer, timers,
                 debounced, notCacheVars>>

\* openTextDocument settles.  Resolved, the document is scanned as it is
\* now and the entry of the path is set; rejected, or the scan throwing,
\* the catch returns [] and the cache is left as it is.
OpenSettles ==
  /\ fileCall.pc = "open"
  /\ \E resolved \in BOOLEAN,
        r \in {findCheckboxesInDocument(docs[fileCall.filePath])} :
       LET filePath == fileCall.filePath
           ok == resolved /\ ~r.threw
           entry == [present |-> TRUE, checkboxes |-> r.items,
                     timestamp |-> fileCall.now]
           after == IF ok THEN [fileCache EXCEPT ![filePath] = entry]
                    ELSE fileCache
       IN  /\ fileCache' = after
           /\ lastFileCall' =
                [kind |-> IF ok THEN "parsed" ELSE "failed",
                 filePath |-> filePath, now |-> fileCall.now,
                 cached |-> fileCall.cached,
                 entryBefore |-> fileCache[filePath],
                 entryAfter |-> after[filePath],
                 othersKept |-> \A p \in Paths \ {filePath} :
                                  after[p] = fileCache[p],
                 checkboxes |-> IF ok THEN r.items ELSE <<>>,
                 document |-> docs[filePath],
                 pendingAtCall |-> fileCall.pendingAtCall,
                 filterAtCall |-> fileCall.filterAtCall]
  /\ fileCall' = NoFileCall
  /\ UNCHANGED <<clock, filesWithCheckboxesCache, refreshed, docs,
                 pendingRefreshFiles, refreshDebounceTimer, timers,
                 debounced, notCacheVars>>

\* refreshFileDebounced(filePath): the path is added to the pending set,
\* the timer of the handle is cleared and a new one is set.  What the last
\* getCheckboxesInFile and the last firing did is forgotten.
refreshFileDebounced(filePath) ==
  LET handle == debounced.notifications + 1
      first == debounced.notifications = 0
                 \/ clock - debounced.lastNotify >= DEBOUNCE_DELAY
  IN  /\ debounced.notifications < MaxNotifications
      /\ pendingRefreshFiles' = pendingAdd(pendingRefreshFiles, filePath)
      /\ timers' = setTimer(timers, refreshDebounceTimer,
                            [handle |-> handle, due |-> dueAfter(clock)])
      /\ refreshDebounceTimer' = handle
      /\ debounced' =
           [debounced EXCEPT
              !.notifications = handle,
              !.lastNotify = clock,
              !.burst = IF first THEN 1 ELSE @ + 1,
              !.burstFirings = IF first THEN 0 ELSE @,
              !.notified = @ \cup {filePath},
              !.lastFiring = NoFiring]
      /\ lastFileCall' = NoLastFileCall

\* the document of a file is edited: the onDidChangeTextDocument handler
\* calls refreshFile(event.document.uri.fsPath)
EditDocument ==
  /\ \E filePath \in Paths, d \in CacheDocuments :
       /\ d # docs[filePath]
       /\ docs' = [docs EXCEPT ![filePath] = d]
       /\ refreshFileDebounced(filePath)
  /\ UNCHANGED <<clock, filesWithCheckboxesCache, refreshed, fileCache,
                 fileCall, notCacheVars>>

\* refreshCheckbox(filePath, lineNumber), called by the toggle command of
\* the explorer after its edit
RefreshCheckbox ==
  /\ \E filePath \in Paths : refreshFileDebounced(filePath)
  /\ UNCHANGED <<clock, filesWithCheckboxesCache, refreshed, docs, fileCache,
                 fileCall, notCacheVars>>

\* an armed timer that is due fires, at its due time or later: the callback
\* deletes the entries of the pending paths, drops the file-set cache,
\* clears the pending set and fires the change event
TimerFires ==
  /\ \E t \in timers :
       /\ clock >= t.due
       /\ timers' = timers \ {t}
       /\ LET after == deletePending(fileCache, pendingRefreshFiles)
          IN  /\ fileCache' = after
              /\ filesWithCheckboxesCache' = NoFilesCache
              /\ pendingRefreshFiles' = {}
              /\ debounced' =
                   [debounced EXCEPT
                      !.burstFirings = @ + 1,
                      !.notified = {},
                      !.lastFiring =
                        [fired |-> TRUE,
                         quiet |-> clock - debounced.lastNotify,
                         paths |-> pendingRefreshFiles,
                         notified |-> debounced.notified,
                         hadEntry |-> {p \in debounced.notified :
                                         fileCache[p].present},
                         kept |-> {p \in debounced.notified :
                                     after[p].present},
                         pendingAfter |-> {},
                         filesCacheAfter |-> NoFilesCache,
                         signals |-> 1]]
  /\ lastFileCall' = NoLastFileCall
  /\ UNCHANGED <<clock, refreshed, docs, refreshDebounceTimer, fileCall,
                 notCacheVars>>

\* time passes; what the last getCheckboxesInFile and the last firing did
\* is forgotten
TickCache ==
  /\ \E t \in CacheTimes : t > clock /\ clock' = t
  /\ lastFileCall' = NoLastFileCall
  /\ debounced' = [debounced EXCEPT !.lastFiring = NoFiring]
  /\ UNCHANGED <<filesWithCheckboxesCache, refreshed, docs, fileCache,
                 pendingRefreshFiles, refreshDebounceTimer, timers, fileCall,
                 notCacheVars>>

NextCache ==
  \/ GetCheckboxesInFile
  \/ OpenSettles
  \/ EditDocument
  \/ RefreshCheckbox
  \/ TimerFires
  \/ TickCache

SpecCache == InitCache /\ [][NextCache]_vars

\* -------------------------------------------- claims on the per-file cache

\* what findCheckboxesInDocument gives for each of the documents
scanned == [d \in CacheDocuments |-> findCheckboxesInDocument(d)]

\* the entry getCheckboxesInFile sets after a scan of `doc` at `now`
EntryOf(doc, now) ==
  [present |-> TRUE, checkboxes |-> scanned[doc].items, timestamp |-> now]

\* the last call found an entry whose age is below the time-to-live
FoundFresh ==
  /\ lastFileCall.cached.present
  /\ lastFileCall.now - lastFileCall.cached.timestamp < 10000

\* the last call returned the cached checkboxes and left the cache alone
ServedFromCache ==
  /\ lastFileCall.kind = "cached"
  /\ lastFileCall.checkboxes = lastFileCall.cached.checkboxes
  /\ lastFileCall.entryAfter = lastFileCall.entryBefore
  /\ lastFileCall.othersKept

\* the last call scanned the document and replaced the entry of its path,
\* and of no other path
Reparsed ==
  /\ lastFileCall.kind = "parsed"
  /\ ~scanned[lastFileCall.document].threw
  /\ lastFileCall.checkboxes = scanned[lastFileCall.document].items
  /\ lastFileCall.entryAfter =
       EntryOf(lastFileCall.document, lastFileCall.now)
  /\ lastFileCall.othersKept

\* C21 as stated: a call is served from the cache if and only if it finds
\* an entry younger than 10000 ms; otherwise it scans the file and replaces
\* the entry of that path only.  The file time-to-live is below the one of
\* the file set.
FileCacheAlwaysReplaced ==
  /\ lastFileCall.kind # "none" =>
       IF FoundFresh THEN ServedFromCache ELSE Reparsed
  /\ FILE_CACHE_TTL < FILES_CACHE_TTL

\* C21: a call is served from the cache if and only if it finds an entry
\* younger than 10000 ms.  Otherwise it opens and scans the file; it then
\* replaces the entry of that path only, with the time of the call as
\* timestamp, unless the document cannot be opened or its scan throws:
\* then it returns no checkbox and leaves every entry as it was, the stale
\* one of the path included.  The file time-to-live is below the one of the
\* file set.
FileCacheFreshness ==
  /\ lastFileCall.kind # "none" =>
       IF FoundFresh THEN ServedFromCache
       ELSE IF lastFileCall.kind = "failed"
       THEN /\ lastFileCall.checkboxes = <<>>
            /\ lastFileCall.entryAfter = lastFileCall.entryBefore
            /\ lastFileCall.othersKept
       ELSE Reparsed
  /\ \A p \in DOMAIN docs :
       scanned[docs[p]].threw /\ lastFileCall.filePath = p
         /\ lastFileCall.document = docs[p]
         => lastFileCall.kind \in {"cached", "failed"}
  /\ FILE_CACHE_TTL < FILES_CACHE_TTL

\* a call found an entry as old as the time-to-live, failed to scan the
\* file and left that entry in the cache
FileCacheFreshnessWitness ==
  /\ lastFileCall.kind = "failed"
  /\ lastFileCall.cached.present
  /\ lastFileCall.now - lastFileCall.cached.timestamp = 10000
  /\ lastFileCall.entryAfter = lastFileCall.cached
  /\ fileCache[lastFileCall.filePath].present

\* the cached entry of a path does not hold what its document holds now
Outdated(entry, doc) ==
  scanned[doc].threw \/ entry.checkboxes # scanned[doc].items

BurstFiresOnce ==
  /\ debounced.burst >= 1 =>
       debounced.burstFirings + Cardinality(timers) = 1
  /\ debounced.lastFiring.fired =>
       /\ debounced.lastFiring.signals = 1
       /\ debounced.lastFiring.kept = {}

\* two notifications less than 500 ms apart were followed by one firing
BurstFiresOnceWitness ==
  /\ debounced.burst = 2
  /\ debounced.lastNotify = 499
  /\ debounced.burstFirings = 1
  /\ timers = {}

\* C25: a firing of the timer finds in the pending set every path notified
\* since the firing before it, at least one; after it none of them has an
\* entry in the per-file cache, the pending set is empty, the file-set
\* cache is dropped, and one change event was fired.
BatchInvalidated ==
  /\ pendingRefreshFiles = debounced.notified
  /\ debounced.lastFiring.fired =>
       /\ debounced.lastFiring.paths = debounced.lastFiring.notified
       /\ debounced.lastFiring.notified # {}
       /\ debounced.lastFiring.kept = {}
       /\ debounced.lastFiring.pendingAfter = {}
       /\ ~debounced.lastFiring.filesCacheAfter.present
       /\ debounced.lastFiring.signals = 1

\* one firing dropped the entries of two paths notified before it
BatchInvalidatedWitness ==
  /\ debounced.lastFiring.fired
  /\ Cardinality(debounced.lastFiring.paths) = 2
  /\ debounced.lastFiring.hadEntry = debounced.lastFiring.paths
  /\ \A p \in debounced.lastFiring.paths : ~fileCache[p].present

\* C26: at most one timer is armed, the one of the handle, and it is due
\* 500 ms after the last notification; a firing never comes less than
\* 500 ms after the last notification.
TimerDiscipline ==
  /\ Cardinality(timers) <= 1
  /\ \A t \in timers :
       /\ t.handle = refreshDebounceTimer
       /\ t.due = debounced.lastNotify + 500
  /\ debounced.lastFiring.fired => debounced.lastFiring.quiet >= 500

\* the timer of a first notification was cancelled by a second one, and
\* the timer of the second fired 500 ms after it
TimerDisciplineWitness ==
  /\ debounced.notifications = 2
  /\ debounced.burst = 2
  /\ debounced.lastFiring.fired
  /\ debounced.lastFiring.quiet = 500
  /\ timers = {}

\* ------------------------------------ claims on the file list and the files

\* the text readFile gives for a file of these lines: the lines, each
\* followed by a line feed
RECURSIVE FileText(_)
FileText(lines) ==
  IF lines = <<>> THEN <<>>
  ELSE Head(lines) \o <<"LF">> \o FileText(Tail(lines))

\* C31: a file that getCheckboxFiles lists (its text includes the marker)
\* has at least one annotation: findCheckboxesInDocument returns, and with
\* a non-empty list (the search filter being unset).
ListedFileHasAnnotation ==
  (scanOutcome # "none" /\ includesMarker(FileText(document.lines))) =>
    /\ scanOutcome = "return"
    /\ checkboxes # <<>>

\* C32: the file-set cache changes only by being emptied or by the end of
\* a scan, which puts in it, in one step, the items of every marked file
\* with the time the scan's call was made; no step of a scan that is still
\* reading changes it, and every call returns the items of a whole cache.
AtomicCacheReplacement ==
  [][ /\ filesWithCheckboxesCache' # filesWithCheckboxesCache =>
           \/ filesWithCheckboxesCache' = NoFilesCache
           \/ /\ lastCall'.kind = "scanned"
              /\ {lastCall'.reads[j] : j \in 1..Len(lastCall'.reads)}
                   = DOMAIN disk
              /\ filesWithCheckboxesCache'.present
              /\ filesWithCheckboxesCache'.timestamp = lastCall'.now
              /\ {filesWithCheckboxesCache'.items[j].filePath :
                    j \in 1..Len(filesWithCheckboxesCache'.items)}
                   = MarkedFiles
              /\ filesWithCheckboxesCache' = lastCall'.cacheAfter
      /\ (lastCall' # lastCall /\ lastCall'.kind # "none") =>
           /\ Len(returned') = Len(lastCall'.cacheAfter.items)
           /\ Elements(returned') = Elements(lastCall'.cacheAfter.items)
    ]_vars

\* a scan is suspended between two batches with one of two marked files in
\* its map, while the cache holds the two files of a scan that has ended
AtomicCacheReplacementWitness ==
  /\ filesWithCheckboxesCache.present
  /\ Len(filesWithCheckboxesCache.items) = 2
  /\ \E c \in CallIds :
       /\ call[c].pc = "batch"
       /\ call[c].i > 0
       /\ Len(call[c].fileMap) = 1

\* ------------------------------------------- claims on the toggle, again

\* C33: on every line a toggle rewrites, the current value the toggle
\* reads is what extractVariableValue gives for that line, and the
\* left-hand side the toggle copies ends at the first `=` of the line.
ToggleAgreesWithExtractor ==
  ToggleRewrote =>
    /\ extractVariableValue(oldText, commentSyntax)
         = Str(currentValue(oldText, OldVar))
    /\ OldVar.q = Min({q \in 1..Len(oldText) : oldText[q] = Equals})

\* --------------------------------------- claims on the file list, again

\* the file list a call in sort mode None returns from a cache
ListedInModeNone(cache) == applySorting(cache.items, "None", stats)

\* the paths of a sequence of items
PathsOf(items) == [j \in 1..Len(items) |-> items[j].filePath]

\* the reads of the last scan that found the marker, in the order they
\* settled
RECURSIVE MarkedReads(_)
MarkedReads(reads) ==
  IF reads = <<>> THEN <<>>
  ELSE IF Head(reads) \in MarkedFiles
  THEN <<Head(reads)>> \o MarkedReads(Tail(reads))
  ELSE MarkedReads(Tail(reads))

\* the list in mode None is in the order in which the reads that found the
\* marker settled
InsertionOrder ==
  lastCall.kind = "scanned" =>
    PathsOf(ListedInModeNone(lastCall.cacheAfter))
      = MarkedReads(lastCall.reads)

\* C34: in sort mode None the file list is in the order in which the
\* reads that found the marker settled, and as long as the cache is
\* within its time-to-live and is not invalidated the list keeps its order.
ListingOrderStable ==
  [][ /\ InsertionOrder'
      /\ (cacheFresh(filesWithCheckboxesCache, clock)
            /\ filesWithCheckboxesCache'.present) =>
           ListedInModeNone(filesWithCheckboxesCache')
             = ListedInModeNone(filesWithCheckboxesCache)
    ]_vars

\* C35: a scan that was in flight when refresh() dropped the caches leaves
\* no fresh cache behind: as long as no call has been made since the
\* refresh, the file-set cache holds nothing a call would be answered from,
\* so that the first call after the scan performs a new scan.
NoStaleInstall ==
  refreshed => ~cacheFresh(filesWithCheckboxesCache, clock)

\* ------------------------------------------ the debounce timer, with fairness

\* time passes while a timer is armed, up to the millisecond before it is
\* due, or until it is due; what the last getCheckboxesInFile and the last
\* firing did is forgotten
TimerComesDue ==
  /\ \E t \in timers : \E now \in {t.due - 1, t.due} :
       /\ clock < now
       /\ clock' = now
  /\ lastFileCall' = NoLastFileCall
  /\ debounced' = [debounced EXCEPT !.lastFiring = NoFiring]
  /\ UNCHANGED <<filesWithCheckboxesCache, refreshed, docs, fileCache,
                 pendingRefreshFiles, refreshDebounceTimer, timers, fileCall,
                 notCacheVars>>

NextCacheFair ==
  \/ GetCheckboxesInFile
  \/ OpenSettles
  \/ EditDocument
  \/ TimerFires
  \/ TimerComesDue

\* The per-file cache and the debounce timer with the scheduling of the
\* event loop: the time an armed timer waits for does pass, and the
\* callback of a timer that is due and was not cleared is run.
SpecCacheFair ==
  /\ InitCache
  /\ [][NextCacheFair]_vars
  /\ WF_vars(TimerComesDue)
  /\ WF_vars(TimerFires)

\* the timer callback ran in this step
Firing == debounced'.lastFiring.fired /\ debounced'.lastFiring # debounced.lastFiring

\* the firing that ends the wait of the paths notified: none of them has an
\* entry, nothing is pending, and the change event was fired
Fired(notified) ==
  /\ debounced.lastFiring.fired
  /\ debounced.lastFiring.signals >= 1
  /\ notified \subseteq debounced.lastFiring.paths
  /\ \A p \in notified : ~fileCache[p].present
  /\ pendingRefreshFiles = {}

\* C36: the notifications being finitely many, every set of paths notified
\* and not yet invalidated is in the end followed by a firing that leaves
\* none of them with an entry of the per-file cache, leaves the pending set
\* empty and fires the change event; and a step in which less than 500 ms
\* have passed since the last notification invalidates nothing and fires
\* no event.
DebounceLiveness ==
  /\ \A S \in SUBSET Paths :
       (S # {} /\ S \subseteq debounced.notified) ~> Fired(S)
  /\ [][ (debounced.notifications > 0
            /\ clock - debounced.lastNotify < DEBOUNCE_DELAY) =>
           /\ ~Firing
           /\ \A p \in Paths : fileCache[p].present => fileCache'[p].present
           /\ pendingRefreshFiles \subseteq pendingRefreshFiles'
         ]_vars

\* the timer of a second notification, made 499 ms after the first, came
\* due and fired, and dropped an entry
DebounceLivenessWitness ==
  /\ clock = 2 * DEBOUNCE_DELAY - 1
  /\ debounced.burst = 2
  /\ debounced.lastFiring.fired
  /\ debounced.lastFiring.hadEntry # {}
  /\ pendingRefreshFiles = {}
  /\ timers = {}

\* ---------------------------------------- the search filter and the caches

\* The documents the filter is tried on: two annotated lines whose names
\* differ in case, one annotated line with no name, and a line
\* findCheckboxesInDocument throws on.
FilterDocuments ==
  { [languageId |-> "python",
     lines |-> << <<"x", Equals, "a", "#", Marker, "a", Pipe, "b">>,
                  <<"X", Equals, "b", "#", Marker, "a", Pipe, "b">> >>],
    [languageId |-> "python",
     lines |-> << <<"a", "#", Marker, "a", Pipe, "b">> >>],
    [languageId |-> "python",
     lines |-> << <<"x", Equals, "#", Marker, "a", Pipe, "b">> >>] }

\* The queries of the search box: none, a letter in either case, and a
\* character that is no regular expression.
Queries == {<<>>, <<"x">>, <<"X">>, <<"(">>}

SearchFilters ==
  [query : Queries, caseSensitive : BOOLEAN, useRegex : BOOLEAN]

InitFilter ==
  /\ docs \in [Paths -> FilterDocuments]
  /\ fileCache = [p \in Paths |-> NoEntry]
  /\ pendingRefreshFiles = {}
  /\ refreshDebounceTimer = 0
  /\ timers = {}
  /\ fileCall = NoFileCall
  /\ lastFileCall = NoLastFileCall
  /\ debounced = NoneDebounced
  /\ searchFilter = NoSearchFilter
  /\ LineUnused
  /\ ScanUnused
  /\ FilesUnused
  /\ SortUnused

\* A clear that leaves the entries where they are.
clearNothing(cache) == cache

\* this.fileCache.clear()
clear(cache) == [p \in DOMAIN cache |-> NoEntry]

\* setSearchFilter(query, caseSensitive, useRegex): the filter is set, the
\* caches are dropped by invalidateAllCaches and again by refresh(), which
\* fires the change event.  What the last getCheckboxesInFile did is
\* forgotten.
SetSearchFilter ==
  /\ \E filter \in SearchFilters : searchFilter' = filter
  /\ fileCache' = clear(fileCache)
  /\ filesWithCheckboxesCache' = NoFilesCache
  /\ refreshed' = TRUE
  /\ lastFileCall' = NoLastFileCall
  /\ UNCHANGED <<lineVars, scanVars, sortVars, disk, batchSize, call, reading,
                 returned, lastCall, clock, docs, pendingRefreshFiles,
                 refreshDebounceTimer, timers, fileCall, debounced>>

NextFilter ==
  \/ GetCheckboxesInFile
  \/ OpenSettles
  \/ SetSearchFilter
  \/ TickCache

SpecFilter == InitFilter /\ [][NextFilter]_vars

\* C38: whatever the order of setSearchFilter and of the steps of the
\* getCheckboxesInFile calls, an entry of the per-file cache holds the
\* annotations of its document whose variable name passes the search
\* filter as it is now, and no other.
FilterConsistency ==
  \A p \in Paths :
    fileCache[p].present =>
      \E r \in {findCheckboxesInDocument(docs[p])} :
        /\ ~r.threw
        /\ fileCache[p].checkboxes = r.items

\* a call that was made under one filter returned under another, which
\* lets one of the two annotations of the document pass, and left an entry
FilterConsistencyWitness ==
  /\ lastFileCall.kind = "parsed"
  /\ lastFileCall.filterAtCall # searchFilter
  /\ Len(lastFileCall.document.lines) = 2
  /\ fileCache[lastFileCall.filePath].present
  /\ Len(fileCache[lastFileCall.filePath].checkboxes) = 1

\* --------------------------------------- claims on the debounce timer, again

\* C37: the callback of the debounce timer changes the entry of no path
\* that was not notified since the firing before it, an entry it does
\* change is the entry of a notified path and is removed, and it leaves the
\* sort mode and the search filter as they are.
FiringFrame ==
  [][ Firing =>
        /\ \A p \in Paths \ debounced.notified : fileCache'[p] = fileCache[p]
        /\ \A p \in Paths :
             fileCache'[p] # fileCache[p] =>
               /\ p \in debounced.notified
               /\ ~fileCache'[p].present
        /\ sortMode' = sortMode
        /\ searchFilter' = searchFilter
    ]_vars

\* a firing removed the entry of the one path notified and the other path
\* has its entry
FiringFrameWitness ==
  /\ debounced.lastFiring.fired
  /\ Cardinality(debounced.lastFiring.paths) = 1
  /\ debounced.lastFiring.hadEntry = debounced.lastFiring.paths
  /\ \A p \in Paths \ debounced.lastFiring.paths : fileCache[p].present
  /\ \A p \in debounced.lastFiring.paths : ~fileCache[p].present

\* ------------------------------------------- the value nodes of the tree

\* The lines of the documents the tree is built from: an annotated line,
\* the same with another value list, and a line with no annotation.
NodeLines ==
  { <<"x", Equals, "a", "#", Marker, "a", Pipe, "b">>,
    <<"x", Equals, "c", "#", Marker, "c", Pipe, "d">>,
    <<"y", Equals, "b">> }

NodeDocuments ==
  [languageId : {DocLanguageId},
   lines : UNION {[1..n -> NodeLines] : n \in 0..MaxLines}]

InitNode ==
  /\ document \in NodeDocuments
  /\ checkboxes = <<>>
  /\ scanOutcome = "none"
  /\ LineUnused
  /\ FilesUnused
  /\ SortUnused
  /\ CacheUnused
  /\ FilterUnused

\* the lines with s put in before the line at position i
InsertLine(lines, i, s) ==
  Sub(lines, 1, i - 1) \o <<s>> \o Sub(lines, i, Len(lines))

\* the lines without the line at position i
RemoveLine(lines, i) == Sub(lines, 1, i - 1) \o Sub(lines, i + 1, Len(lines))

\* the user replaces, inserts or removes a line of the document; the
\* tree keeps the nodes it has, and what the last command did is forgotten
EditLines ==
  /\ \E after \in
          {[document.lines EXCEPT ![i] = s] :
             i \in 1..Len(document.lines), s \in NodeLines}
            \cup {InsertLine(document.lines, i, s) :
                    i \in 1..(Len(document.lines) + 1), s \in NodeLines}
            \cup {RemoveLine(document.lines, i) : i \in 1..Len(document.lines)} :
       /\ after # document.lines
       /\ Len(after) <= MaxLines
       /\ document' = [document EXCEPT !.lines = after]
  /\ lineText' = <<>>
  /\ oldText' = <<>>
  /\ op' = "init"
  /\ newValueArg' = <<>>
  /\ edited' = FALSE
  /\ result' = "none"
  /\ validation' = NotValidated
  /\ UNCHANGED <<checkboxes, scanOutcome, filesVars, sortVars, cacheVars,
                 filterVars>>

\* getChildren(element) for a checkbox node: the value nodes, each with the
\* lineNumber of the record and one of its values as displayValue
ValueNodes(records) ==
  {[lineNumber |-> records[j].lineNumber,
    displayValue |-> records[j].checkboxValues[k]] :
      <<j, k>> \in {jk \in (1..Len(records)) \X (1..3) :
                      jk[2] <= Len(records[jk[1]].checkboxValues)}}

\* the command checkbox-display.setCheckboxValue with the arguments of a
\* value node of the tree, on the document as it is now: lineAt throws on
\* a line number the document does not have
SetCheckboxValueOfNode ==
  /\ \E node \in ValueNodes(checkboxes) :
       LET i == node.lineNumber + 1
           newValue == node.displayValue
       IN  /\ newValueArg' = newValue
           /\ IF i > Len(document.lines)
              THEN /\ oldText' = <<>>
                   /\ lineText' = <<>>
                   /\ edited' = FALSE
                   /\ result' = "throw"
                   /\ UNCHANGED document
              ELSE LET s == document.lines[i]
                       v == varMatch(s, getCommentSyntax(document.languageId))
                   IN  /\ oldText' = s
                       /\ result' = "none"
                       /\ IF setValueMatches(v)
                          THEN /\ lineText' = newTextOf(s, v, newValue)
                               /\ edited' = TRUE
                               /\ document' =
                                    [document EXCEPT
                                       !.lines[i] = newTextOf(s, v, newValue)]
                          ELSE /\ lineText' = s
                               /\ edited' = FALSE
                               /\ UNCHANGED document
  /\ op' = "setValue"
  /\ validation' = NotValidated
  /\ UNCHANGED <<checkboxes, scanOutcome, filesVars, sortVars, cacheVars,
                 filterVars>>

NextNode ==
  \/ FindCheckboxesInDocument
  \/ EditLines
  \/ SetCheckboxValueOfNode

SpecNode == InitNode /\ [][NextNode]_vars

\* C39: when the command of a value node has rewritten a line, the value
\* the line assigns is one of the values the line declares, whatever was
\* done to the document since the node was built.
NodeValueDeclared ==
  (op = "setValue" /\ edited) =>
    \E cs \in {getCommentSyntax(document.languageId)} :
      /\ cbMatch(lineText, cs).matched
      /\ includes(extractCheckboxValues(lineText, cbMatch(lineText, cs)),
                  newValueArg)

====
